---- MODULE Spec2Model ----
(***************************************************************************)
(* Model of the status dashboards of claude-multiagent:                    *)
(*   - watch-deploys.py   (DeployWatchApp, FsWatcher, fetch_deploys)       *)
(*   - watch_dashboard/tabs/deploys.py (DeploysTab, thread workers)        *)
(*   - watch-beads.py     (BeadsTUI, background refresh thread)            *)
(* One behaviour follows one of the three programs; `prog` says which.     *)
(***************************************************************************)
EXTENDS Integers, Sequences, FiniteSets, TLC

(* ------------------------------------------------------------------ *)
(* Bounds                                                              *)
(* ------------------------------------------------------------------ *)

\* agents with a status file
MaxAgents == 3
\* longest plugin output (in lines) fed to the parser of fetch_deploys
MaxLines == 3
\* keys the terminal buffers while the curses loop is inside do_refresh
MaxPending == 1
\* thread workers a dashboard run may start
MaxWorkers == 2
\* versions the ticket database goes through
MaxVer == 2
\* deploys in one answer of the Render API
MaxDeploys == 2

Programs == {"deploys", "dashboard", "beads"}

(* ------------------------------------------------------------------ *)
(* Plugin output and its parsing (watch-deploys.py fetch_deploys)      *)
(* ------------------------------------------------------------------ *)

\* One line of a plugin's standard output:
\*   obj    - a JSON object (a record), id tells records apart
\*   scalar - valid JSON that is not an object (42, "x", null, [1])
\*   bad    - not JSON
\*   blank  - empty after strip()
LineKinds == {"obj", "scalar", "bad", "blank"}
Obj(i) == [kind |-> "obj", id |-> i]
Scalar == [kind |-> "scalar", id |-> 0]
Bad == [kind |-> "bad", id |-> 0]
Blank == [kind |-> "blank", id |-> 0]
Lines == {Obj(1), Obj(2), Scalar, Bad, Blank}

\* json.loads(line): the parsed value; a line that is not JSON raises
\* JSONDecodeError, rendered here as the value JSONDecodeError
JSONDecodeError == [type |-> "JSONDecodeError", id |-> 0]
json_loads(line) ==
    CASE line.kind = "obj" -> [type |-> "object", id |-> line.id]
      [] line.kind = "scalar" -> [type |-> "scalar", id |-> line.id]
      [] OTHER -> JSONDecodeError

\* the for-loop of fetch_deploys: blank lines are skipped, a line that
\* fails json.loads is skipped, every other parsed value is appended
RECURSIVE parse_lines(_)
parse_lines(out) ==
    IF out = <<>> THEN <<>>
    ELSE LET line == Head(out)
             rest == parse_lines(Tail(out))
         IN IF line.kind = "blank" THEN rest
            ELSE IF json_loads(line) = JSONDecodeError THEN rest
            ELSE <<json_loads(line)>> \o rest

\* What a run of `<script> list` can do.
\*   exit    - the process ended with `code` after printing `out`
\*   timeout - subprocess.TimeoutExpired after 30s
\*   gone    - FileNotFoundError from subprocess.run
\*   raise   - any other exception inside fetch_deploys (OSError from exec,
\*             KeyError on a field without "key", ...)
Exit(code, out) == [kind |-> "exit", code |-> code, out |-> out]
Timeout == [kind |-> "timeout", code |-> 0, out |-> <<>>]
Gone == [kind |-> "gone", code |-> 0, out |-> <<>>]
Raise == [kind |-> "raise", code |-> 0, out |-> <<>>]
NoRun == [kind |-> "norun", code |-> 0, out |-> <<>>]

\* Return values of fetch_deploys: a list, None, or a propagated exception
Ok(recs) == [tag |-> "list", recs |-> recs]
None == [tag |-> "None", recs |-> <<>>]
Raised == [tag |-> "raise", recs |-> <<>>]

\* a fetch_deploys that does not look at the return code
fetch_deploys_any_exit(provider, executable, run) ==
    IF provider = "none" THEN Ok(<<>>)
    ELSE IF ~executable THEN Ok(<<>>)
    ELSE CASE run.kind = "raise" -> Raised
           [] run.kind = "timeout" -> None
           [] run.kind = "gone" -> None
           [] run.kind = "exit" -> Ok(parse_lines(run.out))
           [] OTHER -> Ok(<<>>)

\* fetch_deploys(): provider is cfg.get("provider"), executable is
\* os.access(script, X_OK), run is what the list subprocess does
fetch_deploys(provider, executable, run) ==
    IF provider = "none" THEN Ok(<<>>)
    ELSE IF ~executable THEN Ok(<<>>)
    ELSE CASE run.kind = "raise" -> Raised
           [] run.kind = "timeout" -> None
           [] run.kind = "gone" -> None
           [] run.kind = "exit" /\ run.code # 0 -> None
           [] run.kind = "exit" /\ run.code = 0 -> Ok(parse_lines(run.out))
           [] OTHER -> Ok(<<>>)


(* ------------------------------------------------------------------ *)
(* State                                                               *)
(* ------------------------------------------------------------------ *)

VARIABLES
    prog,                 \* which program this behaviour runs
    \* -- the environment shared by the deploy programs
    cfgProvider,          \* "provider" in .deploy-watch.json ("none": unset)
    scriptOk,             \* os.access(providers/<provider>, X_OK)
    \* -- watch-deploys.py: DeployWatchApp and FsWatcher
    dw_pc,                \* position of DeployWatchApp.run
    dw_ret,               \* call site of the do_refresh in progress
    dw_call,              \* position inside fetch_deploys
    dw_run,               \* what the last list subprocess did (NoRun: none ran)
    cached_records,       \* DeployWatchApp.cached_records
    fetch_error,          \* DeployWatchApp.fetch_error
    is_fetching,          \* DeployWatchApp.is_fetching
    show_help,
    show_provider_menu,
    show_provider_manage,
    triggered,            \* FsWatcher._triggered
    watcher,              \* FsWatcher._process: none / running / terminating /
                          \* exited / killed
    fs_reader,            \* FsWatcher._thread: none / running / stopped
    pollDue,              \* now - last_poll >= POLL_INTERVAL
    keybuf,               \* keys typed while the loop was inside do_refresh
    renderIO,             \* files read and processes run by the last render_screen
    trig_late,            \* the latched notification arrived during a fetch
    cause_late,           \* the do_refresh in progress serves such a notification
    \* -- watch_dashboard/tabs/deploys.py: DeploysTab
    d_cached_records,     \* DeploysTab._cached_records
    d_fetch_error,        \* DeploysTab._fetch_error
    workers,              \* the thread workers started by _refresh_data
    \* -- watch-beads.py: BeadsTUI
    tickets,              \* BeadsTUI.tickets
    summary,              \* BeadsTUI.summary (the version it was parsed from, 0: "")
    error_msg,            \* BeadsTUI.error_msg
    cursor,               \* BeadsTUI.cursor (0-based)
    mode,                 \* BeadsTUI.mode
    refresh_lock,         \* holder of BeadsTUI._refresh_lock
    stop_event,           \* BeadsTUI._stop_event
    b_pc,                 \* position of BeadsTUI.run (main thread)
    bg_pc,                \* position of bg_refresh_loop (background thread)
    ld,                   \* per thread: the load_tickets call in progress
    frame,                \* what render_list has read for the frame being drawn
    db,                   \* version of the ticket database bd reads
    tool,                 \* ok / nobd (BD is no file) / nobeads (no .beads dir)
    last_done,            \* records delivered by the load that completed last
    \* -- one call of fetch_deploys on its own
    p_pc,                 \* "input": arguments drawn, "output": result computed
    p_provider,           \* cfg.get("provider")
    p_exec,               \* os.access(script, os.X_OK)
    p_run,                \* what the list subprocess does
    p_res,                \* the value returned
    \* -- watch-agents.py: the locals of main and the terminal
    ag_pc,                \* position of main: render / getch / done
    scroll_offset,        \* main: scroll_offset
    selected_idx,         \* main: selected_idx
    in_detail,            \* main: in_detail
    total,                \* main: total, the agent count render returned
    max_y,                \* stdscr.getmaxyx(): rows of the terminal
    max_x,                \* stdscr.getmaxyx(): columns of the terminal
    status_files,         \* agents collect_agents finds in the status dirs
    card,                 \* what the last render drew
    last_key,             \* the key main handled last
    \* -- render_table of watch-deploys.py and watch-gh-actions.py
    lay_pc,               \* input / loop (the while loop) / done
    content,              \* the padded column widths the content asks for
    widths,               \* render_table: widths (padded in watch-gh-actions)
    excess,               \* render_table: excess
    \* -- providers/render.py and providers/renderdotcom.py: cmd_list
    prov_pc,              \* host / start / loop (the for loop) / done / exit1
    deploys,              \* the "status" of each deploy the API returned
    stdout,               \* the records printed on standard output
    host_cfg,             \* cfg.get(provider, {}) of the host's fetch_deploys
    child_env,            \* the env= the host gives the list subprocess
    prov_cfg,             \* the configuration the list command read
    \* -- watch_dashboard/app.py: WatchDashboardApp and its screens
    d_screen,             \* the active screen: main / help / manage / picker / config
    d_running,            \* the application has not exited
    d_exit_timer,         \* set_timer(2.0, self.app.exit) is pending
    d_pane_disabled,      \* "dashboard_pane: disabled" is in the local settings
    d_form_error,         \* the configuration dialog has refused a Save
    tabs_cfg,             \* the "tabs" section of .deploy-watch.json
    d_panes,              \* the tab panes compose() put into the TabbedContent
    \* -- watch-gh-actions.py: GHActionsApp
    gh_pc,                \* position of GHActionsApp.run: start / getch / poll / done
    gh_show_help,         \* GHActionsApp.show_help
    gh_repo,              \* GHActionsApp.repo ("": None)
    gh_cached_runs,       \* GHActionsApp.cached_runs
    gh_fetch_error        \* GHActionsApp.fetch_error

envVars == <<cfgProvider, scriptOk>>
dwVars == <<dw_pc, dw_ret, dw_call, dw_run, cached_records, fetch_error, is_fetching,
            show_help, show_provider_menu, show_provider_manage, triggered,
            watcher, pollDue, keybuf, renderIO, fs_reader, trig_late,
            cause_late>>
dashVars == <<d_cached_records, d_fetch_error, workers>>
beadsVars == <<tickets, summary, error_msg, cursor, mode, refresh_lock,
               stop_event, b_pc, bg_pc, ld, frame, db, tool, last_done>>
parseVars == <<p_pc, p_provider, p_exec, p_run, p_res>>
agentVars == <<ag_pc, scroll_offset, selected_idx, in_detail, total, max_y,
               max_x, status_files, card, last_key>>
layoutVars == <<lay_pc, content, widths, excess>>
providerVars == <<prov_pc, deploys, stdout, host_cfg, child_env, prov_cfg>>
dashUiVars == <<d_screen, d_running, d_exit_timer, d_pane_disabled,
               d_form_error>>
ghVars == <<gh_pc, gh_show_help, gh_repo, gh_cached_runs, gh_fetch_error>>
\* the state of the sections added after the three dashboards
composeVars == <<tabs_cfg, d_panes>>
restVars == <<parseVars, agentVars, layoutVars, providerVars, dashUiVars,
             ghVars, composeVars>>
\* what the steps of each of these sections leave alone
notParseVars == <<prog, envVars, dwVars, dashVars, beadsVars, agentVars,
                  layoutVars, providerVars, dashUiVars, ghVars, composeVars>>
notAgentVars == <<prog, envVars, dwVars, dashVars, beadsVars, parseVars,
                  layoutVars, providerVars, dashUiVars, ghVars, composeVars>>
notLayoutVars == <<prog, envVars, dwVars, dashVars, beadsVars, parseVars,
                   providerVars, dashUiVars, ghVars, composeVars>>
notProviderVars == <<prog, envVars, dwVars, dashVars, beadsVars, parseVars,
                     agentVars, layoutVars, dashUiVars, ghVars, composeVars>>
\* what no step of the dashboard application touches
notDashVars == <<prog, scriptOk, dwVars, beadsVars, parseVars, agentVars,
                 layoutVars, providerVars, ghVars, composeVars>>
\* the same without the configuration file, for the steps that write it
notDashFileVars == <<prog, scriptOk, dwVars, beadsVars, parseVars, agentVars,
                     layoutVars, providerVars, ghVars, d_panes>>
restFileVars == <<parseVars, agentVars, layoutVars, providerVars, dashUiVars,
                  ghVars, d_panes>>
notGhVars == <<prog, envVars, dwVars, dashVars, beadsVars, parseVars,
               agentVars, layoutVars, providerVars, dashUiVars, composeVars>>
vars == <<prog, envVars, dwVars, dashVars, beadsVars, restVars>>

(* ------------------------------------------------------------------ *)
(* watch-deploys.py                                                    *)
(* ------------------------------------------------------------------ *)

POLL_INTERVAL == 30

\* keys of the deploy TUI; "1" is a digit naming a listed provider,
\* "x" stands for every key outside all vocabularies, NoKey is getch() = -1
Keys == {"q", "?", "p", "r", "d", "c", "1", "x"}
NoKey == "none"

\* what the list subprocess of watch-deploys may do in this model
DWOutputs == {<<>>, <<Bad>>, <<Obj(1)>>, <<Obj(1), Bad, Obj(2)>>}
DWRuns == {Timeout, Gone, Raise, Exit(1, <<>>), Exit(1, <<Obj(1)>>)}
            \cup {Exit(0, o) : o \in DWOutputs}

\* list_providers(): the executable files of the providers directory
list_providers == IF scriptOk THEN <<"p1">> ELSE <<>>

\* a do_refresh that forgets the cache when the provider fails
refresh_records_drop(res, old) == IF res.tag = "list" THEN res.recs ELSE <<>>

\* do_refresh, lines 383-388 and 391-392: the new cached_records
refresh_records(res, old) == IF res.tag = "list" THEN res.recs ELSE old

\* do_refresh, lines 380-392: the new fetch_error (str(e) for an exception)
refresh_error(res) ==
    CASE res.tag = "None" -> "Provider error"
      [] res.tag = "raise" -> "exception"
      [] OTHER -> ""

\* do_refresh up to the point where fetch_deploys waits for its subprocess
DoRefreshBegin(site) ==
    /\ is_fetching' = TRUE
    /\ fetch_error' = ""
    /\ dw_pc' = "fetching"
    /\ dw_ret' = site
    /\ dw_run' = dw_run
    /\ dw_call' = IF cfgProvider = "none" THEN "noprovider"
                  ELSE IF ~scriptOk THEN "noexec"
                  ELSE "list"

\* a run() without the finally clause
StopWatcher_never == watcher' = watcher

\* FsWatcher.stop() in the finally clause of run, up to its wait:
\* self._process.terminate()
StopWatcher == watcher' = IF watcher = "running" THEN "terminating" ELSE watcher

\* FsWatcher.start(): no process and no reader thread without the refs
\* directory, without an fswatch on PATH or when Popen does not find it
fswatch_start(refs_dir, which, popen_ok) ==
    IF refs_dir /\ which /\ popen_ok THEN "running" ELSE "none"

\* run(): fswatch.start() and the initial do_refresh
DWStart ==
    /\ prog = "deploys" /\ dw_pc = "start"
    /\ \E refs_dir, which, popen_ok \in BOOLEAN :
         watcher' = fswatch_start(refs_dir, which, popen_ok)
    /\ fs_reader' = IF watcher' = "running" THEN "running" ELSE "none"
    /\ DoRefreshBegin("init")
    /\ cause_late' = FALSE
    /\ UNCHANGED <<prog, restVars, dashVars, beadsVars, envVars, cached_records, show_help, show_provider_menu,
                   show_provider_manage, triggered, pollDue, keybuf, renderIO,
                   trig_late>>

\* fetch_deploys, lines 183-211: the list subprocess ends (none is run
\* without a provider or an executable script)
DWFetchReturn ==
    /\ prog = "deploys" /\ dw_pc = "fetching"
    /\ dw_run' \in (IF dw_call = "list" THEN DWRuns ELSE {NoRun})
    /\ dw_pc' = "storing"
    /\ UNCHANGED <<prog, restVars, dashVars, beadsVars, envVars, dw_ret, dw_call,
                   cached_records, fetch_error, is_fetching, show_help,
                   show_provider_menu, show_provider_manage, triggered, watcher,
                   pollDue, keybuf, renderIO, fs_reader, trig_late, cause_late>>

\* the value fetch_deploys returns to do_refresh
DWResult ==
    fetch_deploys(IF dw_call = "noprovider" THEN "none" ELSE "p1",
                  dw_call # "noexec", dw_run)

\* the rest of do_refresh, lines 383-395: the result is stored
DWRefreshEnd ==
    /\ prog = "deploys" /\ dw_pc = "storing"
    /\ cached_records' = refresh_records(DWResult, cached_records)
    /\ fetch_error' = refresh_error(DWResult)
    /\ is_fetching' = FALSE
    /\ dw_call' = "idle"
    /\ dw_pc' = IF dw_ret = "key" THEN "check" ELSE "render"
    /\ pollDue' = IF dw_ret = "init" THEN FALSE ELSE pollDue
    /\ cause_late' = FALSE
    /\ UNCHANGED <<prog, restVars, dashVars, beadsVars, envVars, dw_ret, dw_run, show_help,
                   show_provider_menu, show_provider_manage, triggered, watcher,
                   keybuf, renderIO, fs_reader, trig_late>>

\* config_get_provider() is truthy: a provider is configured
has_provider_never(provider) == FALSE

has_provider(provider) == provider # "none"

\* a manage menu that stays up when c opens the selection menu
manage_closes_not_c(key) == key \in {"q", "r"}

\* handle_input, lines 853-862: the keys that clear show_provider_manage
manage_closes(key) == key \in {"q", "c", "r"}

\* handle_input, lines 848-878: the view whose branch takes the next key
input_view ==
    IF show_help THEN "help"
    ELSE IF show_provider_manage THEN "manage"
    ELSE IF show_provider_menu THEN "menu"
    ELSE "main"

\* what the user types into the fields of the configuration form; "" is a
\* field left empty
TypedForms == [serviceId : {"", "srv-a"}, apiKeyEnv : {"", "KEY_A"}]

\* cmd_config of the provider scripts: serviceId is the required field
field_required(key) == key = "serviceId"

\* cmd_config: the default the form shows for a field ("" is none)
form_default(key) == IF key = "apiKeyEnv" THEN "RENDER_DOT_COM_TOK" ELSE ""

\* "if not val and default: val = default"
form_value(typed, key) ==
    IF typed[key] = "" /\ form_default(key) # "" THEN form_default(key)
    ELSE typed[key]

\* a form that stores whatever was typed
form_saved_unchecked(typed) == TRUE

\* configure_provider_interactive, lines 735-782, and _on_save of the
\* configuration dialog: FALSE when "required and not val" stops the loop
\* over the fields before the configuration is written
form_saved(typed) ==
    \A key \in DOMAIN typed :
        ~(field_required(key) /\ form_value(typed, key) = "")

\* handle_input(key); saved is what configure_provider_interactive returns
\* if the key makes handle_input call it
DWHandle(key, saved) ==
    /\ prog = "deploys" /\ dw_pc = "getch"
    /\ key \in (IF keybuf # <<>> THEN {Head(keybuf)} ELSE Keys \cup {NoKey})
    /\ keybuf' = IF keybuf # <<>> THEN Tail(keybuf) ELSE keybuf
    /\ CASE key = NoKey ->
              /\ dw_pc' = "check"
              /\ UNCHANGED <<envVars, dw_ret, dw_call, dw_run, cached_records,
                             fetch_error, is_fetching, show_help,
                             show_provider_menu, show_provider_manage,
                             watcher, cause_late>>
         [] key # NoKey /\ show_help ->
              /\ show_help' = FALSE
              /\ dw_pc' = "check"
              /\ UNCHANGED <<envVars, dw_ret, dw_call, dw_run, cached_records,
                             fetch_error, is_fetching,
                             show_provider_menu, show_provider_manage,
                             watcher, cause_late>>
         [] key # NoKey /\ ~show_help /\ show_provider_manage ->
              /\ show_provider_manage' =
                   IF manage_closes(key) THEN FALSE ELSE TRUE
              /\ show_provider_menu' =
                   IF key = "c" THEN TRUE ELSE show_provider_menu
              /\ cfgProvider' = IF key = "r" THEN "none" ELSE cfgProvider
              /\ cached_records' = IF key = "r" THEN <<>> ELSE cached_records
              /\ dw_pc' = "check"
              /\ UNCHANGED <<scriptOk, dw_ret, dw_call, dw_run, fetch_error,
                             is_fetching, show_help, watcher, cause_late>>
         [] key # NoKey /\ ~show_help /\ ~show_provider_manage
               /\ show_provider_menu ->
              IF key = "q"
              THEN /\ show_provider_menu' = FALSE
                   /\ dw_pc' = "check"
                   /\ UNCHANGED <<envVars, dw_ret, dw_call, dw_run, cached_records,
                                  fetch_error, is_fetching, show_help,
                                  show_provider_manage, watcher, cause_late>>
              ELSE IF key = "1" /\ 1 <= Len(list_providers)
              THEN /\ show_provider_menu' = FALSE
                   /\ \* configure_provider_interactive(selected)
                        IF saved
                        THEN /\ cfgProvider' = list_providers[1]
                             /\ scriptOk' = scriptOk
                             /\ is_fetching' = TRUE
                             /\ fetch_error' = ""
                             /\ dw_pc' = "fetching"
                             /\ dw_ret' = "key"
                             /\ dw_call' = "list"
                             /\ dw_run' = dw_run
                             /\ cause_late' = FALSE
                        ELSE /\ dw_pc' = "check"
                             /\ UNCHANGED <<envVars, dw_ret, dw_call, dw_run,
                                            fetch_error, is_fetching,
                                            cause_late>>
                   /\ UNCHANGED <<cached_records, show_help,
                                  show_provider_manage, watcher>>
              ELSE /\ dw_pc' = "check"
                   /\ UNCHANGED <<envVars, dw_ret, dw_call, dw_run, cached_records,
                                  fetch_error, is_fetching, show_help,
                                  show_provider_menu, show_provider_manage,
                                  watcher, cause_late>>
         [] OTHER ->
              CASE key \in {"q", "d"} ->
                     \* return False / disable_deploy_pane: SystemExit
                     /\ dw_pc' = "done"
                     /\ StopWatcher
                     /\ UNCHANGED <<envVars, dw_ret, dw_call, dw_run, cached_records,
                                    fetch_error, is_fetching, show_help,
                                    show_provider_menu, show_provider_manage,
                                    cause_late>>
                [] key = "?" ->
                     /\ show_help' = TRUE
                     /\ dw_pc' = "check"
                     /\ UNCHANGED <<envVars, dw_ret, dw_call, dw_run, cached_records,
                                    fetch_error, is_fetching,
                                    show_provider_menu, show_provider_manage,
                                    watcher, cause_late>>
                [] key = "p" ->
                     /\ show_provider_manage' = has_provider(cfgProvider)
                     /\ show_provider_menu' = ~has_provider(cfgProvider)
                     /\ dw_pc' = "check"
                     /\ UNCHANGED <<envVars, dw_ret, dw_call, dw_run, cached_records,
                                    fetch_error, is_fetching, show_help,
                                    watcher, cause_late>>
                [] key = "r" ->
                     /\ DoRefreshBegin("key")
                     /\ cause_late' = FALSE
                     /\ UNCHANGED <<envVars, cached_records, show_help,
                                    show_provider_menu, show_provider_manage,
                                    watcher>>
                [] OTHER ->
                     /\ dw_pc' = "check"
                     /\ UNCHANGED <<envVars, dw_ret, dw_call, dw_run, cached_records,
                                    fetch_error, is_fetching, show_help,
                                    show_provider_menu, show_provider_manage,
                                    watcher, cause_late>>
    /\ UNCHANGED <<prog, restVars, dashVars, beadsVars, triggered, pollDue, renderIO, fs_reader, trig_late>>

\* getch() and handle_input(key); a buffered key is delivered first
DWHandleInput ==
    \E key \in Keys \cup {NoKey}, typed \in TypedForms :
        DWHandle(key, form_saved(typed))

\* handle_input(key), whatever a configuration dialog it opens ends with
DWHandleKey(key) == \E saved \in BOOLEAN : DWHandle(key, saved)

\* a run() that listens to fswatch only and has no poll timer
DWCheckTriggers_no_poll ==
    /\ prog = "deploys" /\ dw_pc = "check"
    /\ IF triggered
       THEN /\ triggered' = FALSE
            /\ trig_late' = FALSE
            /\ cause_late' = trig_late
            /\ pollDue' = FALSE
            /\ DoRefreshBegin("trigger")
       ELSE /\ dw_pc' = "render"
            /\ UNCHANGED <<dw_ret, dw_call, dw_run, fetch_error, is_fetching, triggered,
                           trig_late, cause_late, pollDue>>
    /\ UNCHANGED <<prog, restVars, dashVars, beadsVars, envVars, cached_records, show_help, show_provider_menu,
                   show_provider_manage, watcher, keybuf, renderIO, fs_reader>>

\* run(), lines 921-928: fswatch.check() first, the poll timer second
DWCheckTriggers ==
    /\ prog = "deploys" /\ dw_pc = "check"
    /\ IF triggered
       THEN /\ triggered' = FALSE
            /\ trig_late' = FALSE
            /\ cause_late' = trig_late
            /\ pollDue' = FALSE
            /\ DoRefreshBegin("trigger")
       ELSE IF pollDue
       THEN /\ pollDue' = FALSE
            /\ cause_late' = FALSE
            /\ DoRefreshBegin("trigger")
            /\ UNCHANGED <<triggered, trig_late>>
       ELSE /\ dw_pc' = "render"
            /\ UNCHANGED <<dw_ret, dw_call, dw_run, fetch_error, is_fetching, triggered,
                           trig_late, cause_late, pollDue>>
    /\ UNCHANGED <<prog, restVars, dashVars, beadsVars, envVars, cached_records, show_help, show_provider_menu,
                   show_provider_manage, watcher, keybuf, renderIO, fs_reader>>

\* what provider_display_name(provider) does: it runs `<script> name`
\* when the script is executable
NameIO == IF scriptOk THEN {"plugin_name"} ELSE {}

\* render_header: config_get_provider() reads the configuration file and
\* provider_display_name runs the plugin
HeaderIO == {"config_read"} \cup (IF cfgProvider # "none" THEN NameIO ELSE {})

\* the branch of render_screen that draws the body
BodyIO ==
    IF show_help THEN {}
    ELSE IF show_provider_menu THEN {"list_dir"} \cup NameIO
    ELSE IF show_provider_manage
    THEN {"config_read"} \cup (IF cfgProvider # "none" THEN NameIO ELSE {})
    ELSE {"config_read"} \cup (IF cfgProvider = "none" THEN {"list_dir"} ELSE {})

\* render_screen, lines 693-704: the body it paints
body_view ==
    IF show_help THEN "help"
    ELSE IF show_provider_menu THEN "menu"
    ELSE IF show_provider_manage THEN "manage"
    ELSE IF has_provider(cfgProvider) THEN "table"
    ELSE "unconfigured"

\* render_screen()
DWRender ==
    /\ prog = "deploys" /\ dw_pc = "render"
    /\ renderIO' = HeaderIO \cup BodyIO
    /\ dw_pc' = "getch"
    /\ UNCHANGED <<prog, restVars, dashVars, beadsVars, envVars, dw_ret, dw_call, dw_run, cached_records, fetch_error,
                   is_fetching, show_help, show_provider_menu,
                   show_provider_manage, triggered, watcher, pollDue, keybuf,
                   trig_late, cause_late, fs_reader>>

\* an event that is set whether or not a watcher process was started
FsEvent_no_process ==
    /\ prog = "deploys" /\ dw_pc # "done"
    /\ ~triggered
    /\ triggered' = TRUE
    /\ trig_late' = (dw_pc \in {"fetching", "storing"})
    /\ UNCHANGED <<prog, restVars, dashVars, beadsVars, envVars, dw_pc, dw_ret, dw_call, dw_run, cached_records,
                   fetch_error, is_fetching, show_help, show_provider_menu,
                   show_provider_manage, watcher, pollDue, keybuf, renderIO, fs_reader,
                   cause_late>>

\* FsWatcher._reader: fswatch printed a line, the event is set
FsEvent ==
    /\ prog = "deploys" /\ watcher = "running" /\ dw_pc # "done"
    /\ ~triggered
    /\ triggered' = TRUE
    /\ trig_late' = (dw_pc \in {"fetching", "storing"})
    /\ UNCHANGED <<prog, restVars, dashVars, beadsVars, envVars, dw_pc, dw_ret, dw_call, dw_run, cached_records,
                   fetch_error, is_fetching, show_help, show_provider_menu,
                   show_provider_manage, watcher, pollDue, keybuf, renderIO, fs_reader,
                   cause_late>>

\* FsWatcher.stop(), lines 310-315: wait(timeout=2) returns when fswatch
\* has exited; TimeoutExpired or ProcessLookupError leads to kill()
FsStopWait ==
    /\ prog = "deploys" /\ dw_pc = "done" /\ watcher = "terminating"
    /\ \E exited \in BOOLEAN :
         watcher' = IF exited THEN "exited" ELSE "killed"
    /\ UNCHANGED <<prog, restVars, dashVars, beadsVars, envVars, dw_pc, dw_ret, dw_call, dw_run, cached_records,
                   fetch_error, is_fetching, show_help, show_provider_menu,
                   show_provider_manage, triggered, pollDue, keybuf, renderIO, fs_reader,
                   trig_late, cause_late>>

\* FsWatcher._reader: the pipe of the dead process is at its end, the for
\* loop and the thread are over
ReaderEof ==
    /\ prog = "deploys" /\ fs_reader = "running"
    /\ watcher \in {"exited", "killed"}
    /\ fs_reader' = "stopped"
    /\ UNCHANGED <<prog, restVars, dashVars, beadsVars, envVars, dw_pc, dw_ret, dw_call, dw_run, cached_records,
                   fetch_error, is_fetching, show_help, show_provider_menu,
                   show_provider_manage, triggered, watcher, pollDue, keybuf, renderIO,
                   trig_late, cause_late>>

StopStep == FsStopWait \/ ReaderEof

\* run(), lines 910-930: an exception leaves the while loop where it waits
\* for a key, in a getch with nothing typed ahead (KeyboardInterrupt;
\* curses.error alone is caught there); the finally clause runs
DWError ==
    /\ prog = "deploys" /\ dw_pc = "getch" /\ keybuf = <<>>
    /\ dw_pc' = "done"
    /\ StopWatcher
    /\ UNCHANGED <<prog, restVars, dashVars, beadsVars, envVars, dw_ret, dw_call, dw_run, cached_records,
                   fetch_error, is_fetching, show_help, show_provider_menu,
                   show_provider_manage, triggered, pollDue, keybuf, renderIO, fs_reader,
                   trig_late, cause_late>>

\* time passes: POLL_INTERVAL seconds since last_poll
Tick ==
    /\ prog = "deploys" /\ dw_pc \notin {"start", "done"}
    /\ ~pollDue
    /\ pollDue' = TRUE
    /\ UNCHANGED <<prog, restVars, dashVars, beadsVars, envVars, dw_pc, dw_ret, dw_call, dw_run, cached_records,
                   fetch_error, is_fetching, show_help, show_provider_menu,
                   show_provider_manage, triggered, watcher, keybuf, renderIO, fs_reader,
                   trig_late, cause_late>>

\* the user types while the loop is blocked in do_refresh
TypeKey ==
    /\ prog = "deploys" /\ dw_pc = "fetching"
    /\ Len(keybuf) < MaxPending
    /\ \E k \in Keys : keybuf' = Append(keybuf, k)
    /\ UNCHANGED <<prog, restVars, dashVars, beadsVars, envVars, dw_pc, dw_ret, dw_call, dw_run, cached_records,
                   fetch_error, is_fetching, show_help, show_provider_menu,
                   show_provider_manage, triggered, watcher, pollDue, renderIO, fs_reader,
                   trig_late, cause_late>>

\* the provider script is installed, removed or chmod-ed between refreshes
ScriptChange ==
    /\ prog \in Programs
    /\ scriptOk' = ~scriptOk
    /\ UNCHANGED <<prog, restVars, cfgProvider, dwVars, dashVars, beadsVars>>

(* ------------------------------------------------------------------ *)
(* watch_dashboard/tabs/deploys.py                                     *)
(* ------------------------------------------------------------------ *)

WorkerIds == 1..MaxWorkers

\* a worker that has not been started yet
Unused == [st |-> "unused", call |-> "idle", res |-> None, cancelled |-> FALSE]

\* what fetch_deploys of watch_dashboard.providers may hand to the worker:
\* the tab tells None from a list of records (deploys.py lines 105, 111)
DashResults == {None} \cup {Ok(parse_lines(o)) : o \in DWOutputs}

\* @work(exclusive=True, thread=True): starting _refresh_data cancels the
\* workers of the group, which marks them and does not stop their threads,
\* and starts a new thread
StartWorker(w) ==
    workers' = [v \in WorkerIds |->
                  IF v = w THEN [Unused EXCEPT !.st = "started"]
                  ELSE IF workers[v].st \in {"unused", "done"} THEN workers[v]
                  ELSE [workers[v] EXCEPT !.cancelled = TRUE]]

\* on_mount, the poll timer of app.py and the r key: refresh_data()
DashTrigger ==
    /\ prog = "dashboard"
    /\ \E w \in WorkerIds :
         /\ workers[w].st = "unused"
         /\ \A v \in WorkerIds : v < w => workers[v].st # "unused"
         /\ StartWorker(w)
    /\ UNCHANGED <<prog, restVars, envVars, dwVars, beadsVars, d_cached_records, d_fetch_error>>

\* _refresh_data, lines 99-104: no provider posts _show_unconfigured,
\* otherwise fetch_deploys is entered
WorkerBegin(w) ==
    /\ prog = "dashboard" /\ workers[w].st = "started"
    /\ workers' = [workers EXCEPT
                     ![w].st = IF cfgProvider = "none" THEN "unconfigured"
                               ELSE "fetching",
                     ![w].call = IF cfgProvider = "none" THEN "idle" ELSE "list"]
    /\ UNCHANGED <<prog, restVars, envVars, dwVars, beadsVars, d_cached_records, d_fetch_error>>

\* _refresh_data, lines 104-106: fetch_deploys returns in the worker thread
WorkerReturn(w) ==
    /\ prog = "dashboard" /\ workers[w].st = "fetching"
    /\ \E res \in DashResults :
         workers' = [workers EXCEPT ![w].st = "returned", ![w].res = res]
    /\ UNCHANGED <<prog, restVars, envVars, dwVars, beadsVars, d_cached_records, d_fetch_error>>

\* _apply, lines 108-113, run on the application thread by call_from_thread
apply_error(res) == IF res.tag = "None" THEN "Provider error" ELSE ""
apply_records(res, old) == IF res.tag # "None" THEN res.recs ELSE old

WorkerApply(w) ==
    /\ prog = "dashboard" /\ workers[w].st = "returned"
    /\ d_fetch_error' = apply_error(workers[w].res)
    /\ d_cached_records' = apply_records(workers[w].res, d_cached_records)
    /\ workers' = [workers EXCEPT ![w].st = "done"]
    /\ UNCHANGED <<prog, restVars, envVars, dwVars, beadsVars>>

\* _show_unconfigured posted by a worker that found no provider
WorkerUnconfigured(w) ==
    /\ prog = "dashboard" /\ workers[w].st = "unconfigured"
    /\ workers' = [workers EXCEPT ![w].st = "done"]
    /\ UNCHANGED <<prog, restVars, envVars, dwVars, beadsVars, d_cached_records, d_fetch_error>>

\* the file has no "tabs" key: cfg.get("tabs", {}) is empty for every tab
NoTabs == [tab \in {"deploys", "actions"} |-> "notabs"]

\* _on_config: config_write(config_file, {"provider": provider, provider:
\* values}) replaces the whole file by these two keys
tabs_after_write(old) == NoTabs

\* _on_manage: config_remove(config_file) deletes the file
tabs_after_remove(old) == NoTabs

\* manage_provider: the Remove choice of the manage dialog
DashRemove ==
    /\ prog = "dashboard" /\ cfgProvider # "none"
    /\ cfgProvider' = "none"
    /\ tabs_cfg' = tabs_after_remove(tabs_cfg)
    /\ d_cached_records' = <<>>
    /\ UNCHANGED <<prog, restFileVars, scriptOk, dwVars, beadsVars, d_fetch_error, workers>>

\* _configure_provider_fields._on_config: the configuration is written and
\* a refresh is started
DashConfigure ==
    /\ prog = "dashboard"
    /\ cfgProvider' = "p1"
    /\ \E w \in WorkerIds :
         /\ workers[w].st = "unused"
         /\ \A v \in WorkerIds : v < w => workers[v].st # "unused"
         /\ StartWorker(w)
    /\ tabs_cfg' = tabs_after_write(tabs_cfg)
    /\ UNCHANGED <<prog, restFileVars, scriptOk, dwVars, beadsVars, d_cached_records, d_fetch_error>>

DashNext ==
    \/ DashTrigger
    \/ \E w \in WorkerIds : WorkerBegin(w)
    \/ \E w \in WorkerIds : WorkerReturn(w)
    \/ \E w \in WorkerIds : WorkerApply(w)
    \/ \E w \in WorkerIds : WorkerUnconfigured(w)
    \/ DashRemove
    \/ DashConfigure

(* ------------------------------------------------------------------ *)
(* watch-beads.py                                                      *)
(* ------------------------------------------------------------------ *)

Threads == {"main", "bg"}
BeadsKeys == {"j", "k", "enter", "r", "q", "x"}

\* the tickets `bd list --pretty` prints for version v of the database:
\* version 0 is the empty database, odd versions hold two tickets, even one
LenOf(v) == IF v = 0 THEN 0 ELSE 1 + (v % 2)
TicketsOf(v) == [i \in 1..LenOf(v) |-> [ver |-> v, idx |-> i]]

\* parse_tickets(raw): the ticket list and the "Total:" line of the output
parse_tickets(raw) == [tickets |-> TicketsOf(raw), summary |-> raw]

NoLoad == [pc |-> "idle", raw |-> 0, err |-> "", todo |-> <<>>]

\* marks a behaviour in which some load found no bd or no .beads: from
\* then on last_done no longer follows the runs of bd
Unavailable == <<[ver |-> 0, idx |-> 0]>>

\* load_tickets() entered by thread t, lines 150-162: the two checks that
\* return early, otherwise run_bd starts the subprocess
LoadBegin(t) ==
    /\ ld' = [ld EXCEPT ![t] =
                IF tool = "nobd"
                THEN [pc |-> "write", raw |-> 0, err |-> "bd command not found",
                      todo |-> <<"tickets", "summary", "error_msg">>]
                ELSE IF tool = "nobeads"
                THEN [pc |-> "write", raw |-> 0, err |-> "No beads initialized",
                      todo |-> <<"tickets", "summary", "error_msg">>]
                ELSE [pc |-> "run_bd", raw |-> 0, err |-> "", todo |-> <<>>]]
    /\ last_done' = IF tool = "ok" THEN last_done ELSE Unavailable

\* run_bd returns to load_tickets, lines 162-165: None on a failure,
\* the output otherwise
RunBdReturn(t) ==
    /\ prog = "beads" /\ ld[t].pc = "run_bd"
    /\ \E ok \in BOOLEAN :
         IF ok
         THEN /\ ld' = [ld EXCEPT ![t] = [pc |-> "lock", raw |-> db, err |-> "",
                                          todo |-> <<>>]]
              /\ last_done' = IF last_done = Unavailable THEN Unavailable
                               ELSE parse_tickets(db).tickets
         ELSE /\ ld' = [ld EXCEPT ![t] = [pc |-> "write", raw |-> 0,
                                          err |-> "bd list failed",
                                          todo |-> <<"error_msg">>]]
              /\ last_done' = last_done
    /\ UNCHANGED <<prog, restVars, envVars, dwVars, dashVars, tickets, summary, error_msg,
                   cursor, mode, refresh_lock, stop_event, b_pc, bg_pc, frame,
                   db, tool>>

\* with self._refresh_lock, line 167
LoadAcquire(t) ==
    /\ prog = "beads" /\ ld[t].pc = "lock"
    /\ refresh_lock = "free"
    /\ refresh_lock' = t
    /\ ld' = [ld EXCEPT ![t].pc = "write",
                        ![t].todo = <<"tickets", "summary", "error_msg", "cursor">>]
    /\ UNCHANGED <<prog, restVars, envVars, dwVars, dashVars, tickets, summary, error_msg,
                   cursor, mode, stop_event, b_pc, bg_pc, frame, db, tool,
                   last_done>>

\* the cursor clamp of load_tickets, lines 171-175
clamp_cursor(cur, count) ==
    IF count = 0 THEN 0 ELSE IF cur >= count THEN count - 1 ELSE cur

\* where a thread goes when its load_tickets call returns
AfterLoad(t) ==
    IF t = "main"
    THEN /\ b_pc' = "render" /\ bg_pc' = bg_pc
    ELSE /\ bg_pc' = "wait" /\ b_pc' = b_pc

\* one attribute store of load_tickets (lines 151-153, 157-159, 164,
\* 168-175); after the last one the lock is released and the call returns
LoadWrite(t) ==
    /\ prog = "beads" /\ ld[t].pc = "write"
    /\ LET f == Head(ld[t].todo)
           rest == Tail(ld[t].todo)
       IN /\ tickets' = IF f = "tickets" THEN parse_tickets(ld[t].raw).tickets
                        ELSE tickets
          /\ summary' = IF f = "summary" THEN parse_tickets(ld[t].raw).summary
                        ELSE summary
          /\ error_msg' = IF f = "error_msg" THEN ld[t].err ELSE error_msg
          /\ cursor' = IF f = "cursor" THEN clamp_cursor(cursor, Len(tickets))
                       ELSE cursor
          /\ IF rest = <<>>
             THEN /\ ld' = [ld EXCEPT ![t] = NoLoad]
                  /\ refresh_lock' = IF refresh_lock = t THEN "free"
                                     ELSE refresh_lock
                  /\ AfterLoad(t)
             ELSE /\ ld' = [ld EXCEPT ![t].todo = rest]
                  /\ UNCHANGED <<refresh_lock, b_pc, bg_pc>>
    /\ UNCHANGED <<prog, restVars, envVars, dwVars, dashVars, mode, stop_event, frame, db,
                   tool, last_done>>

\* run(), line 374: the initial load_tickets()
BeadsStart ==
    /\ prog = "beads" /\ b_pc = "start"
    /\ b_pc' = "loading"
    /\ LoadBegin("main")
    /\ UNCHANGED <<prog, restVars, envVars, dwVars, dashVars, tickets, summary, error_msg,
                   cursor, mode, refresh_lock, stop_event, bg_pc, frame, db, tool>>

NoFrame == [summary |-> 0, count |-> 0, rows |-> <<>>]

\* render_list, lines 214-219: the summary is read for the header;
\* render_detail draws the detail lines only
RenderSummary ==
    /\ prog = "beads" /\ b_pc = "render"
    /\ IF mode = "list"
       THEN /\ frame' = [summary |-> summary, count |-> 0, rows |-> <<>>]
            /\ b_pc' = "render_count"
            /\ bg_pc' = bg_pc
       ELSE /\ frame' = NoFrame
            /\ b_pc' = "getch"
            /\ bg_pc' = IF bg_pc = "unstarted" THEN "wait" ELSE bg_pc
    /\ UNCHANGED <<prog, restVars, envVars, dwVars, dashVars, tickets, summary, error_msg,
                   cursor, mode, refresh_lock, stop_event, ld, db, tool,
                   last_done>>

\* render_list, lines 235-243: count = len(self.tickets)
RenderCount ==
    /\ prog = "beads" /\ b_pc = "render_count"
    /\ frame' = [frame EXCEPT !.count = Len(tickets)]
    /\ IF Len(tickets) = 0
       THEN /\ b_pc' = "getch"
            /\ bg_pc' = IF bg_pc = "unstarted" THEN "wait" ELSE bg_pc
       ELSE /\ b_pc' = "render_rows"
            /\ bg_pc' = bg_pc
    /\ UNCHANGED <<prog, restVars, envVars, dwVars, dashVars, tickets, summary, error_msg,
                   cursor, mode, refresh_lock, stop_event, ld, db, tool,
                   last_done>>

\* render_list, lines 244-245: t = self.tickets[i] for the next row; an
\* index past the end of the list raises IndexError, which leaves run()
\* through its finally clause
RenderRow ==
    /\ prog = "beads" /\ b_pc = "render_rows"
    /\ LET i == Len(frame.rows) + 1
       IN IF i > Len(tickets)
          THEN /\ b_pc' = "crashed"
               /\ stop_event' = TRUE
               /\ UNCHANGED <<frame, bg_pc>>
          ELSE /\ frame' = [frame EXCEPT !.rows = Append(frame.rows, tickets[i])]
               /\ stop_event' = stop_event
               /\ IF i = frame.count
                  THEN /\ b_pc' = "getch"
                       /\ bg_pc' = IF bg_pc = "unstarted" THEN "wait" ELSE bg_pc
                  ELSE /\ UNCHANGED <<b_pc, bg_pc>>
    /\ UNCHANGED <<prog, restVars, envVars, dwVars, dashVars, tickets, summary, error_msg,
                   cursor, mode, refresh_lock, ld, db, tool, last_done>>

\* detail mode: the keys that lead back to the list
detail_back_any(key) == TRUE

detail_back(key) == key \in {"q", "enter"}

\* the key handling of run, for one key
BeadsHandle(key) ==
    /\ prog = "beads" /\ b_pc = "getch"
    /\ key \in BeadsKeys \cup {NoKey}
    /\ CASE key = NoKey ->
              \* timeout: render again when a second has passed
              /\ \E need_render \in BOOLEAN :
                   b_pc' = IF need_render THEN "render" ELSE "getch"
              /\ UNCHANGED <<cursor, mode, stop_event, ld, last_done>>
         [] key # NoKey /\ mode = "list" ->
              CASE key = "k" ->
                     /\ cursor' = IF cursor > 0 THEN cursor - 1 ELSE cursor
                     /\ b_pc' = "render"
                     /\ UNCHANGED <<mode, stop_event, ld, last_done>>
                [] key = "j" ->
                     /\ cursor' = IF cursor < Len(tickets) - 1 THEN cursor + 1
                                  ELSE cursor
                     /\ b_pc' = "render"
                     /\ UNCHANGED <<mode, stop_event, ld, last_done>>
                [] key = "enter" ->
                     \* show_detail()
                     /\ mode' = IF Len(tickets) > 0 /\ cursor < Len(tickets)
                                THEN "detail" ELSE mode
                     /\ b_pc' = "render"
                     /\ UNCHANGED <<cursor, stop_event, ld, last_done>>
                [] key = "r" ->
                     /\ b_pc' = "loading"
                     /\ LoadBegin("main")
                     /\ UNCHANGED <<cursor, mode, stop_event>>
                [] key = "q" ->
                     /\ b_pc' = "done"
                     /\ stop_event' = TRUE
                     /\ UNCHANGED <<cursor, mode, ld, last_done>>
                [] OTHER ->
                     /\ b_pc' = "render"
                     /\ UNCHANGED <<cursor, mode, stop_event, ld, last_done>>
         [] OTHER ->
              \* detail mode: q and enter go back, j/k scroll the text
              /\ mode' = IF detail_back(key) THEN "list" ELSE mode
              /\ b_pc' = "render"
              /\ UNCHANGED <<cursor, stop_event, ld, last_done>>
    /\ UNCHANGED <<prog, restVars, envVars, dwVars, dashVars, tickets, summary, error_msg,
                   refresh_lock, bg_pc, frame, db, tool>>

\* run(), lines 385-447: getch() and the key handling of the loop
BeadsKey == \E key \in BeadsKeys \cup {NoKey} : BeadsHandle(key)

\* a background loop that sleeps 5 seconds and never looks at the stop event
BgWake_no_stop ==
    /\ prog = "beads" /\ bg_pc = "wait"
    /\ mode = "list"
    /\ bg_pc' = "loading"
    /\ LoadBegin("bg")
    /\ UNCHANGED <<prog, restVars, envVars, dwVars, dashVars, tickets, summary, error_msg,
                   cursor, mode, refresh_lock, stop_event, b_pc, frame, db, tool>>

\* bg_refresh_loop: the 5 second wait ran out and the stop event is not set
BgWake ==
    /\ prog = "beads" /\ bg_pc = "wait" /\ ~stop_event
    /\ mode = "list"
    /\ bg_pc' = "loading"
    /\ LoadBegin("bg")
    /\ UNCHANGED <<prog, restVars, envVars, dwVars, dashVars, tickets, summary, error_msg,
                   cursor, mode, refresh_lock, stop_event, b_pc, frame, db, tool>>

\* bg_refresh_loop: the wait returns True once the stop event is set
BgStop ==
    /\ prog = "beads" /\ bg_pc = "wait" /\ stop_event
    /\ bg_pc' = "stopped"
    /\ UNCHANGED <<prog, restVars, envVars, dwVars, dashVars, tickets, summary, error_msg,
                   cursor, mode, refresh_lock, stop_event, b_pc, ld, frame, db,
                   tool, last_done>>

\* somebody creates, closes or edits a ticket
DbChange ==
    /\ prog = "beads" /\ db < MaxVer
    /\ db' = db + 1
    /\ UNCHANGED <<prog, restVars, envVars, dwVars, dashVars, tickets, summary, error_msg,
                   cursor, mode, refresh_lock, stop_event, b_pc, bg_pc, ld,
                   frame, tool, last_done>>

\* bd is installed or removed, .beads is created or deleted
ToolChange ==
    /\ prog = "beads"
    /\ \E new \in {"ok", "nobd", "nobeads"} \ {tool} :
         /\ "ok" \in {tool, new}
         /\ tool' = new
    /\ UNCHANGED <<prog, restVars, envVars, dwVars, dashVars, tickets, summary, error_msg,
                   cursor, mode, refresh_lock, stop_event, b_pc, bg_pc, ld,
                   frame, db, last_done>>

BeadsNext ==
    \/ BeadsStart
    \/ \E t \in Threads : RunBdReturn(t)
    \/ \E t \in Threads : LoadAcquire(t)
    \/ \E t \in Threads : LoadWrite(t)
    \/ RenderSummary
    \/ RenderCount
    \/ RenderRow
    \/ BeadsKey
    \/ BgWake
    \/ BgStop
    \/ DbChange
    \/ ToolChange

(* ------------------------------------------------------------------ *)
(* watch-agents.py                                                     *)
(* ------------------------------------------------------------------ *)

CARD_LEFT_MARGIN == 2
CARD_MIN_WIDTH == 40
CARD_HEIGHT == 6

\* terminal sizes: 3 rows and 19 columns are rejected as too small; 9, 15
\* and 21 rows leave room for one, two and three whole cards
Heights == {3, 9, 15, 21}
Widths == {19, 30, 80}

AgentKeys == {"q", "j", "k", "enter", "r", "x"}
KEY_RESIZE == "resize"

Max2(a, b) == IF a >= b THEN a ELSE b
Min2(a, b) == IF a <= b THEN a ELSE b

\* main, line 552: visible_cards = max(1, (max_y - 3) // CARD_HEIGHT)
visible_cards(rows) == Max2(1, (rows - 3) \div CARD_HEIGHT)

\* render, line 458: card_width
card_width(cols) == Max2(cols - CARD_LEFT_MARGIN - 2, CARD_MIN_WIDTH)

\* render, lines 460-472: the screen row of the top border of card i
\* (0-based), scroll_offset subtracted as a number of rows
draw_row(i, scroll) == 2 + i * CARD_HEIGHT - scroll

\* render, lines 468-474: card i is reached by the loop and handed to
\* render_card
card_drawn(i, scroll, n, rows) ==
    /\ i < n
    /\ draw_row(i, scroll) + CARD_HEIGHT > 0
    /\ draw_row(i, scroll) < rows - 1

\* len() of the fields of a status file: agent name, ticket id, and the
\* summary and last-action description
NameLens == {5, 40}
TicketLens == {6}
TextLens == {0, 60}

\* len(text[:n]) for n >= 0
slice_len(len, n) == Min2(len, n)

\* len(truncate(text, max_len))
truncate_len(len, max_len) ==
    IF len <= max_len THEN len
    ELSE IF max_len >= 3 THEN slice_len(len, max_len - 2) + 2
    ELSE slice_len(len, max_len)

\* len(pad_right(text, width))
pad_right_len(len, width) ==
    IF len >= width THEN slice_len(len, width) ELSE len + (width - len)

\* render_card, lines 312-331: len(top_border[:card_width]) of the string
\* "┌─" + name_seg + dashes + ticket_seg + "─┐" after its adjustment
top_border_len(name_len, ticket_len, cw) ==
    LET inner == cw - 2
        fixed_chars == 4 + (name_len + 2) + (ticket_len + 2)
        dash_fill == Max2(inner - fixed_chars, 1)
        first == fixed_chars + dash_fill
        second == fixed_chars + (dash_fill + 1)
        cut(len) == slice_len(len, cw - 1) + 1
        top_border == IF first > cw THEN cut(first)
                      ELSE IF first < cw
                      THEN IF second > cw THEN cut(second) ELSE second
                      ELSE first
    IN slice_len(top_border, cw)

\* render_card: a content row is "│" at x, content[:inner] at x + 1 and
\* "│" at x + 1 + inner; its width up to and with the right border
content_row_len(text_len, cw) ==
    LET inner == cw - 2
    IN 1 + Max2(slice_len(pad_right_len(text_len, inner), inner), inner) + 1

\* render_card, lines 333-342: the status row
status_row_len(summary_len, cw) ==
    LET val_avail == (cw - 2) - 1 - 8
    IN content_row_len(1 + 8 + truncate_len(summary_len, Max2(val_avail, 0)),
                       cw)

\* render_card, lines 344-355: the last-action row; ago_len is
\* len(ago_suffix)
last_row_len(desc_len, ago_len, cw) ==
    LET val_avail_l == (cw - 2) - 1 - 8
        desc_max == Max2(val_avail_l - ago_len, 4)
    IN content_row_len(1 + 8 + truncate_len(desc_len, desc_max) + ago_len, cw)

\* render_card, lines 357-365: the updated row, "Updated: " and "<n>s ago"
updated_row_len(cw) == content_row_len(1 + 9 + 6, cw)

\* render_card, lines 367-370: len(bot_border[:card_width])
bot_border_len(cw) == slice_len(1 + (cw - 2) + 1, cw)

NoCard == [cards |-> FALSE, width |-> 0, sel |-> FALSE, sel_row |-> 0,
           top |-> 0, rows |-> {}, bottom |-> 0]

\* render(): the frame and the count it returns
AgentsRender ==
    /\ prog = "agents" /\ ag_pc = "render"
    /\ IF in_detail
       THEN \* render_detail_view
            /\ card' = NoCard
            /\ total' = total
       ELSE IF max_y < 4 \/ max_x < 20
       THEN /\ card' = NoCard
            /\ total' = 0
       ELSE IF status_files = 0
       THEN /\ card' = NoCard
            /\ total' = 0
       ELSE /\ \E name_len \in NameLens, ticket_len \in TicketLens,
                 text_len \in TextLens :
                 LET cw == card_width(max_x)
                     ago_len == IF text_len = 0 THEN 0 ELSE 5
                 IN card' = [cards |-> TRUE,
                             width |-> cw,
                             sel |-> card_drawn(selected_idx, scroll_offset,
                                                status_files, max_y),
                             sel_row |-> draw_row(selected_idx, scroll_offset),
                             top |-> top_border_len(name_len, ticket_len, cw),
                             rows |-> {status_row_len(text_len, cw),
                                       last_row_len(text_len, ago_len, cw),
                                       updated_row_len(cw)},
                             bottom |-> bot_border_len(cw)]
            /\ total' = status_files
    /\ ag_pc' = "getch"
    /\ UNCHANGED <<notAgentVars, scroll_offset, selected_idx, in_detail, max_y, max_x,
                   status_files, last_key>>

\* main, lines 518-571: getch() and the handling of the key
AgentsKey ==
    /\ prog = "agents" /\ ag_pc = "getch"
    /\ \E key \in AgentKeys \cup {NoKey, KEY_RESIZE} :
         /\ last_key' = key
         /\ IF key = KEY_RESIZE
            THEN \E rows \in Heights, cols \in Widths :
                    /\ <<rows, cols>> # <<max_y, max_x>>
                    /\ max_y' = rows /\ max_x' = cols
            ELSE UNCHANGED <<max_y, max_x>>
         /\ IF in_detail
            THEN /\ in_detail' = IF key \in {NoKey, KEY_RESIZE} THEN TRUE
                                 ELSE FALSE
                 /\ ag_pc' = "render"
                 /\ UNCHANGED <<scroll_offset, selected_idx>>
            ELSE CASE key = "q" ->
                        /\ ag_pc' = "done"
                        /\ UNCHANGED <<scroll_offset, selected_idx, in_detail>>
                   [] key = "j" ->
                        /\ selected_idx' =
                             IF total > 0
                             THEN Min2(selected_idx + 1, total - 1)
                             ELSE selected_idx
                        /\ scroll_offset' =
                             IF total > 0 /\ selected_idx' >=
                                    scroll_offset + visible_cards(max_y)
                             THEN selected_idx' - visible_cards(max_y) + 1
                             ELSE scroll_offset
                        /\ ag_pc' = "render"
                        /\ UNCHANGED in_detail
                   [] key = "k" ->
                        /\ selected_idx' =
                             IF total > 0 THEN Max2(selected_idx - 1, 0)
                             ELSE selected_idx
                        /\ scroll_offset' =
                             IF total > 0 /\ selected_idx' < scroll_offset
                             THEN selected_idx'
                             ELSE scroll_offset
                        /\ ag_pc' = "render"
                        /\ UNCHANGED in_detail
                   [] key = "enter" ->
                        /\ in_detail' = (total > 0 /\ 0 <= selected_idx
                                           /\ selected_idx < total)
                        /\ ag_pc' = "render"
                        /\ UNCHANGED <<scroll_offset, selected_idx>>
                   [] key = "r" ->
                        /\ scroll_offset' = 0
                        /\ selected_idx' = 0
                        /\ ag_pc' = "render"
                        /\ UNCHANGED in_detail
                   [] OTHER ->
                        /\ ag_pc' = "render"
                        /\ UNCHANGED <<scroll_offset, selected_idx, in_detail>>
    /\ UNCHANGED <<notAgentVars, total, status_files, card>>

\* an agent writes its first status file or its status file is removed
StatusChange ==
    /\ prog = "agents"
    /\ \E n \in 0..MaxAgents : n # status_files /\ status_files' = n
    /\ UNCHANGED <<notAgentVars, ag_pc, scroll_offset, selected_idx, in_detail, total,
                   max_y, max_x, card, last_key>>

AgentsNext == AgentsRender \/ AgentsKey \/ StatusChange

(* ------------------------------------------------------------------ *)
(* render_table: the column widths of the deploy and workflow-run      *)
(* tables                                                              *)
(* ------------------------------------------------------------------ *)

Tables == {"deploy_table", "run_table"}

\* Padded widths the content of a table may ask for.  A column is at least
\* as wide as its header plus 2.  Columns of the deploy table (index 1..5,
\* 0..4 in the source): Commit, Message, Build, Deploy, Elapsed; of the run
\* table: Workflow, Branch, Status, Conclusion, Duration, Commit.
DeployContents ==
    {<<c, m, b, d, e>> : c \in {8, 9}, m \in {9, 13, 20, 42},
                         b \in {7, 11, 13}, d \in {8, 13}, e \in {9, 11}}
RunContents ==
    {<<w, b, s, c, d, h>> : w \in {10, 14, 30}, b \in {8, 10, 20},
                            s \in {8, 13}, c \in {12, 17}, d \in {10},
                            h \in {9}}
\* terminal widths
TableWidths == {30, 36, 40, 43, 44, 50, 60, 72, 90, 110}

RECURSIVE SumSeq(_)
SumSeq(w) == IF w = <<>> THEN 0 ELSE Head(w) + SumSeq(Tail(w))

\* total = sum(widths) + len(widths) + 1
table_total_no_edge(w) == SumSeq(w) + Len(w)

table_total(w) == SumSeq(w) + Len(w) + 1

\* the first shrink of one column: down to `floor`, by at most `exc`
can_shrink(w, i, floor, exc) ==
    IF w[i] > floor THEN Min2(w[i] - floor, exc) ELSE 0

\* watch-deploys.py lines 517-521: the Message column first, down to 12
deploy_first(w, exc) ==
    LET n == can_shrink(w, 2, 12, exc)
    IN [widths |-> [w EXCEPT ![2] = w[2] - n], excess |-> exc - n]

\* watch-gh-actions.py lines 349-358: the Workflow column first, down to
\* 12, then the Branch column, down to 8
run_first(w, exc) ==
    LET n1 == can_shrink(w, 1, 12, exc)
        w1 == [w EXCEPT ![1] = w[1] - n1]
        e1 == exc - n1
        n2 == IF e1 > 0 THEN can_shrink(w1, 2, 8, e1) ELSE 0
    IN [widths |-> [w1 EXCEPT ![2] = w1[2] - n2], excess |-> e1 - n2]

\* a scan that keeps the last of several widest columns
RECURSIVE scan_widest_last(_, _, _)
scan_widest_last(w, i, best) ==
    IF i > Len(w) THEN best.widest
    ELSE scan_widest_last(w, i + 1,
            IF w[i] > 6 /\ w[i] >= best.widest_w
            THEN [widest |-> i, widest_w |-> w[i]] ELSE best)

\* watch-deploys.py lines 524-530: the for loop that looks for the widest
\* column above 6; widest = 0 stands for the -1 of the source
RECURSIVE scan_widest(_, _, _)
scan_widest(w, i, best) ==
    IF i > Len(w) THEN best.widest
    ELSE scan_widest(w, i + 1,
            IF w[i] > 6 /\ w[i] > best.widest_w
            THEN [widest |-> i, widest_w |-> w[i]] ELSE best)

\* watch-gh-actions.py line 361: max(range(n_cols), key=...), the first
\* index with the largest key; 0 when the break of line 362 is taken
shrink_key(w, i) == IF w[i] > 6 THEN w[i] ELSE 0
max_by_key(w) ==
    LET i == CHOOSE i \in 1..Len(w) :
                 /\ \A j \in 1..Len(w) : shrink_key(w, j) <= shrink_key(w, i)
                 /\ \A j \in 1..(i - 1) : shrink_key(w, j) < shrink_key(w, i)
    IN IF w[i] <= 6 THEN 0 ELSE i

\* the column the while loop shrinks next (0: none, the loop breaks)
widest_of(w) ==
    IF prog = "deploy_table"
    THEN scan_widest(w, 1, [widest |-> 0, widest_w |-> 0])
    ELSE max_by_key(w)

\* render_table up to the while loop: the total is compared with the
\* terminal width and the preferred columns are shrunk
LayoutBegin ==
    /\ prog \in Tables /\ lay_pc = "input"
    /\ IF table_total(content) > max_x
       THEN LET exc == table_total(content) - max_x
                first == IF prog = "deploy_table"
                         THEN deploy_first(content, exc)
                         ELSE run_first(content, exc)
            IN /\ widths' = first.widths
               /\ excess' = first.excess
               /\ lay_pc' = "loop"
       ELSE /\ widths' = content
            /\ excess' = 0
            /\ lay_pc' = "done"
    /\ UNCHANGED <<notLayoutVars, agentVars, content>>

\* one iteration of `while excess > 0` that shrinks a column
ShrinkStep ==
    /\ prog \in Tables /\ lay_pc = "loop"
    /\ excess > 0
    /\ widest_of(widths) # 0
    /\ widths' = [widths EXCEPT ![widest_of(widths)] = @ - 1]
    /\ excess' = excess - 1
    /\ UNCHANGED <<notLayoutVars, agentVars, lay_pc, content>>

\* the while loop ends: nothing is left to shrink, or break
ShrinkEnd ==
    /\ prog \in Tables /\ lay_pc = "loop"
    /\ excess <= 0 \/ widest_of(widths) = 0
    /\ lay_pc' = "done"
    /\ UNCHANGED <<notLayoutVars, agentVars, content, widths, excess>>

LayoutNext == LayoutBegin \/ ShrinkStep \/ ShrinkEnd

(* ------------------------------------------------------------------ *)
(* fetch_deploys on every bounded plugin run                           *)
(* ------------------------------------------------------------------ *)

\* every plugin output of at most MaxLines lines
AllOutputs == UNION {[1..n -> Lines] : n \in 0..MaxLines}
AllRuns == {Timeout, Gone, Raise}
             \cup {Exit(c, o) : c \in {0, 1, 2}, o \in AllOutputs}

\* fetch_deploys() is called and returns
CallFetchDeploys ==
    /\ prog = "parser" /\ p_pc = "input"
    /\ p_res' = fetch_deploys(p_provider, p_exec, p_run)
    /\ p_pc' = "output"
    /\ UNCHANGED <<notParseVars, p_provider, p_exec, p_run>>

(* ------------------------------------------------------------------ *)
(* providers/render.py and providers/renderdotcom.py: the list command *)
(* ------------------------------------------------------------------ *)

\* the two provider scripts; their STATUS_MAP and status branches are the same
Providers == {"render", "renderdotcom"}

STATUS_MAP ==
    [ created            |-> "pending",
      build_in_progress  |-> "building",
      update_in_progress |-> "deploying",
      live               |-> "live",
      build_failed       |-> "failed",
      update_failed      |-> "failed",
      canceled           |-> "cancelled",
      deactivated        |-> "cancelled" ]

\* status codes the API may send that STATUS_MAP has no entry for: one it
\* added later, none at all (deploy.get("status", "")), and two spelled like
\* values of the table
UnmappedCodes == {"suspended", "", "building", "failed"}

RawCodes == DOMAIN STATUS_MAP \cup UnmappedCodes

\* deploys_raw: what GET /services/<id>/deploys returns
RECURSIVE SeqsUpTo(_, _)
SeqsUpTo(S, n) ==
    IF n = 0 THEN {<<>>}
    ELSE LET shorter == SeqsUpTo(S, n - 1)
         IN  shorter \cup {Append(q, x) : q \in shorter, x \in S}

DeployLists == SeqsUpTo(RawCodes, MaxDeploys)

\* mapped_status = STATUS_MAP.get(status_raw, status_raw)
mapped_status_raw(status_raw) == status_raw

mapped_status(status_raw) ==
    IF status_raw \in DOMAIN STATUS_MAP THEN STATUS_MAP[status_raw]
    ELSE status_raw

Statuses(b, d) == [build_status |-> b, deploy_status |-> d]

\* a generic failure that is not told apart by the raw code
failed_split_none(status_raw) == Statuses("failed", "failed")

\* the branch of mapped_status == "failed": build_failed is a failure of the
\* build, any other raw code one of the deploy
failed_split(status_raw) ==
    IF status_raw = "build_failed"
    THEN Statuses("failed", "pending")
    ELSE Statuses("success", "failed")

\* "Map build/deploy status": the two status fields of the record
record_status_unknown(status_raw) ==
    LET m == IF status_raw \in DOMAIN STATUS_MAP THEN STATUS_MAP[status_raw]
             ELSE "unknown"
    IN  CASE m \in {"pending", "building"} -> Statuses(m, "pending")
          [] m = "deploying" -> Statuses("success", "deploying")
          [] m = "live" -> Statuses("success", "live")
          [] m = "failed" ->
                IF status_raw = "build_failed"
                THEN Statuses("failed", "pending")
                ELSE Statuses("success", "failed")
          [] m = "cancelled" -> Statuses("cancelled", "cancelled")
          [] OTHER -> Statuses(m, m)

record_status(status_raw) ==
    LET m == mapped_status(status_raw)
    IN  CASE m \in {"pending", "building"} -> Statuses(m, "pending")
          [] m = "deploying" -> Statuses("success", "deploying")
          [] m = "live" -> Statuses("success", "live")
          [] m = "failed" -> failed_split(status_raw)
          [] m = "cancelled" -> Statuses("cancelled", "cancelled")
          [] OTHER -> Statuses(m, m)

\* cmd_config: the keys of the fields both scripts declare
FieldKeys == {"serviceId", "apiKeyEnv"}

\* cmd_config, as provider_config_fields normalises it: the default of a field
field_default(provider, key) ==
    IF key = "apiKeyEnv"
    THEN IF provider = "renderdotcom" THEN "RENDER_DOT_COM_TOK"
         ELSE "RENDER_API_KEY"
    ELSE ""

\* key.upper()
upper(key) ==
    CASE key = "serviceId" -> "SERVICEID"
      [] key = "apiKeyEnv" -> "APIKEYENV"

\* f"DEPLOY_WATCH_{key.upper()}"; concatenation kept as a pair
env_key(key) == <<"DEPLOY_WATCH_", upper(key)>>

EnvNames == {env_key(k) : k \in FieldKeys}

\* the provider's section of .deploy-watch.json as the host wrote it or as
\* it was edited by hand: a field is absent, empty or set
HostSections ==
    [serviceId : {"absent", "", "srv-a"}, apiKeyEnv : {"absent", "KEY_A"}]

NoSection == [serviceId |-> "absent", apiKeyEnv |-> "absent"]

\* data.get("config", {}).get("render", {}) of the file in the working
\* directory, which config_write of the host never writes
LegacySections ==
    [serviceId : {"absent", "srv-a", "srv-b"}, apiKeyEnv : {"absent", "KEY_B"}]

\* os.environ of the host: none of the DEPLOY_WATCH_ variables is set
os_environ == [n \in EnvNames |-> "unset"]

\* provider_cfg.get(key, field.get("default", ""))
field_value(provider, section, key) ==
    IF section[key] = "absent" THEN field_default(provider, key)
    ELSE section[key]

\* fetch_deploys, lines 171-179: the environment of the list subprocess
build_env(provider, section) ==
    [n \in EnvNames |->
        LET k == CHOOSE key \in FieldKeys : env_key(key) = n
        IN  field_value(provider, section, k)]

\* nothing read yet
Unread == [service_id |-> "unread", api_key_env |-> "unread"]

\* os.environ.get(name, default)
environ_get(env, name, default) ==
    IF env[name] = "unset" THEN default ELSE env[name]

\* renderdotcom.py get_config_from_env: the service id and the name of the
\* variable that holds the API key; an empty service id ends the process
\* before the second is read
get_config_from_env(env) ==
    LET service_id == environ_get(env, env_key("serviceId"), "")
    IN  [service_id |-> service_id,
         api_key_env |-> IF service_id = "" THEN "unread"
                         ELSE environ_get(env, env_key("apiKeyEnv"),
                                          "RENDER_DOT_COM_TOK")]

\* render.py load_config: both values come from config.render of the file
load_config(file) ==
    [service_id |-> file.serviceId,
     api_key_env |-> IF file.serviceId = "absent" THEN "unread"
                     ELSE IF file.apiKeyEnv = "absent" THEN "RENDER_API_KEY"
                     ELSE file.apiKeyEnv]

\* fetch_deploys of the host, lines 160-184: the section of the configured
\* provider is read, the environment built and the list command started
HostLaunch ==
    /\ prog \in Providers /\ prov_pc = "host"
    /\ \E section \in HostSections :
         /\ host_cfg' = section
         /\ child_env' = build_env(prog, section)
    /\ prov_pc' = "start"
    /\ UNCHANGED <<notProviderVars, deploys, stdout, prov_cfg>>

\* cmd_list up to its for loop: the configuration is read and the two API
\* requests are made; api_get and the configuration readers end the process
\* with sys.exit(1) on any error
CmdListBegin ==
    /\ prog \in Providers /\ prov_pc = "start"
    /\ \E file \in LegacySections :
         prov_cfg' = IF prog = "renderdotcom"
                     THEN get_config_from_env(child_env)
                     ELSE load_config(file)
    /\ \/ /\ prov_cfg'.service_id \notin {"", "absent"}
          /\ \E d \in DeployLists : deploys' = d /\ prov_pc' = "loop"
       \/ deploys' = deploys /\ prov_pc' = "exit1"
    /\ UNCHANGED <<notProviderVars, stdout, host_cfg, child_env>>

\* one pass of "for deploy in deploys": print(json.dumps(record))
EmitRecord ==
    /\ prog \in Providers /\ prov_pc = "loop"
    /\ Len(stdout) < Len(deploys)
    /\ stdout' = Append(stdout, record_status(deploys[Len(stdout) + 1]))
    /\ UNCHANGED <<notProviderVars, prov_pc, deploys, host_cfg, child_env, prov_cfg>>

\* the loop is over; cmd_list and main return
CmdListEnd ==
    /\ prog \in Providers /\ prov_pc = "loop"
    /\ Len(stdout) = Len(deploys)
    /\ prov_pc' = "done"
    /\ UNCHANGED <<notProviderVars, deploys, stdout, host_cfg, child_env, prov_cfg>>

ProviderNext == HostLaunch \/ CmdListBegin \/ EmitRecord \/ CmdListEnd

(* ------------------------------------------------------------------ *)
(* watch_dashboard/app.py: keys, screens and the end of the application *)
(* ------------------------------------------------------------------ *)

\* keys of the dashboard; "x" is any key without a binding (j, k and enter
\* move a cursor that is not part of the state)
DashKeys == {"q", "?", "escape", "r", "p", "d", "x"}

\* the modal screens pushed over the main screen
Modals == {"help", "manage", "picker", "config"}

\* DeploysTab.refresh_data()
StartRefresh ==
    \E w \in WorkerIds :
        /\ workers[w].st = "unused"
        /\ \A v \in WorkerIds : v < w => workers[v].st # "unused"
        /\ StartWorker(w)

\* a key is pressed. BINDINGS of the application: q is bound with
\* priority=True, so the application handles it before the focused widget
\* and whatever screen is active; its other bindings are reached only when
\* no modal screen is active. A modal screen binds escape (and the help
\* screen the question mark) to its own dismissal.
DashKey(key) ==
    /\ prog = "dashboard" /\ d_running
    /\ CASE key = "q" ->
               /\ d_running' = FALSE
               /\ UNCHANGED <<cfgProvider, dashVars, d_screen, d_exit_timer,
                              d_pane_disabled, d_form_error>>
          [] key = "?" /\ d_screen \in {"main", "help"} ->
               /\ d_screen' = IF d_screen = "main" THEN "help" ELSE "main"
               /\ UNCHANGED <<cfgProvider, dashVars, d_running, d_exit_timer,
                              d_pane_disabled, d_form_error>>
          [] key = "escape" /\ d_screen \in {"help", "manage", "config"} ->
               /\ d_screen' = "main"
               /\ UNCHANGED <<cfgProvider, dashVars, d_running, d_exit_timer,
                              d_pane_disabled, d_form_error>>
          [] key = "r" /\ d_screen = "main" ->
               /\ StartRefresh
               /\ UNCHANGED <<cfgProvider, d_cached_records, d_fetch_error,
                              dashUiVars>>
          [] key = "p" /\ d_screen = "main" ->
               /\ d_screen' = IF has_provider(cfgProvider) THEN "manage"
                             ELSE "picker"
               /\ UNCHANGED <<cfgProvider, dashVars, d_running, d_exit_timer,
                              d_pane_disabled, d_form_error>>
          [] key = "d" /\ d_screen = "main" ->
               /\ d_pane_disabled' = TRUE
               /\ d_exit_timer' = TRUE
               /\ UNCHANGED <<cfgProvider, dashVars, d_screen, d_running,
                              d_form_error>>
          [] OTHER ->
               UNCHANGED <<cfgProvider, dashVars, dashUiVars>>
    /\ UNCHANGED notDashVars

\* a button of the manage dialog is pressed: manage_provider._on_manage
ManageButton(action) ==
    /\ prog = "dashboard" /\ d_running /\ d_screen = "manage"
    /\ d_screen' = IF action = "change" THEN "picker" ELSE "main"
    /\ cfgProvider' = IF action = "remove" THEN "none" ELSE cfgProvider
    /\ d_cached_records' = IF action = "remove" THEN <<>> ELSE d_cached_records
    /\ tabs_cfg' = IF action = "remove" THEN tabs_after_remove(tabs_cfg)
                   ELSE tabs_cfg
    /\ UNCHANGED <<notDashFileVars, d_fetch_error, workers, d_running, d_exit_timer,
                   d_pane_disabled, d_form_error>>

\* the provider picker is dismissed: configure_provider._on_pick
PickerDismiss(picked) ==
    /\ prog = "dashboard" /\ d_running /\ d_screen = "picker"
    /\ d_screen' = IF picked THEN "config" ELSE "main"
    /\ UNCHANGED <<notDashVars, cfgProvider, dashVars, d_running, d_exit_timer,
                   d_pane_disabled, d_form_error>>

\* Save or Cancel of the configuration dialog:
\* _configure_provider_fields._on_config
ConfigButton_no_refresh(save) ==
    /\ prog = "dashboard" /\ d_running /\ d_screen = "config"
    /\ d_screen' = "main"
    /\ IF save
       THEN /\ cfgProvider' = "p1"
            /\ tabs_cfg' = tabs_after_write(tabs_cfg)
            /\ workers' = workers
       ELSE UNCHANGED <<cfgProvider, tabs_cfg, workers>>
    /\ UNCHANGED <<notDashFileVars, d_cached_records, d_fetch_error, d_running,
                   d_exit_timer, d_pane_disabled, d_form_error>>

ConfigButton(save) ==
    /\ prog = "dashboard" /\ d_running /\ d_screen = "config"
    /\ d_screen' = "main"
    /\ IF save
       THEN /\ cfgProvider' = "p1"
            /\ tabs_cfg' = tabs_after_write(tabs_cfg)
            /\ StartRefresh
       ELSE UNCHANGED <<cfgProvider, tabs_cfg, workers>>
    /\ UNCHANGED <<notDashFileVars, d_cached_records, d_fetch_error, d_running,
                   d_exit_timer, d_pane_disabled, d_form_error>>

\* ProviderConfigModal._on_save with the fields as typed: a required field
\* without a value is notified and focused and the dialog stays; otherwise
\* the dialog is dismissed with the values and _on_config runs
ConfigSave(typed) ==
    IF form_saved(typed)
    THEN ConfigButton(TRUE)
    ELSE /\ prog = "dashboard" /\ d_running /\ d_screen = "config"
         /\ d_form_error' = TRUE
         /\ UNCHANGED <<notDashVars, cfgProvider, dashVars, d_screen,
                        d_running, d_exit_timer, d_pane_disabled>>

\* the Save and the Cancel button of the configuration dialog
ConfigDialog ==
    \E typed \in TypedForms, save \in BOOLEAN :
        IF save THEN ConfigSave(typed) ELSE ConfigButton(FALSE)

\* the two tabs of the dashboard
Tabs == {"deploys", "actions"}

\* config.py, the schema of its docstring: no "tabs" key, or for each tab
\* an "enabled" that is absent, true or false
TabSections == {NoTabs} \cup [Tabs -> {"absent", "true", "false"}]

\* config_get_tab(config_file, tab).get("enabled", True)
config_get_tab(cfg, tab) ==
    IF cfg[tab] = "notabs" THEN "absent" ELSE cfg[tab]

\* config_tab_enabled(config_file, tab)
config_tab_enabled(cfg, tab) == config_get_tab(cfg, tab) # "false"

\* the TabPane of a tab
pane(tab) == IF tab = "deploys" THEN "deploys-pane" ELSE "actions-pane"

\* before compose() no pane exists
Uncomposed == {"uncomposed"}

\* WatchDashboardApp.compose(): the panes it yields for a configuration
compose(cfg) == {pane(tab) : tab \in Tabs}

\* the application is started in a project whose configuration file holds
\* some tabs section, and composes its screen
DashCompose ==
    /\ prog = "dashboard" /\ d_panes = Uncomposed
    /\ \E cfg \in TabSections :
         /\ tabs_cfg' = cfg
         /\ d_panes' = compose(cfg)
    /\ UNCHANGED <<prog, envVars, dwVars, dashVars, beadsVars, parseVars,
                   agentVars, layoutVars, providerVars, dashUiVars, ghVars>>

\* the timer set by disable_dashboard_pane fires: self.app.exit
DashExitTimer ==
    /\ prog = "dashboard" /\ d_running /\ d_exit_timer
    /\ d_running' = FALSE
    /\ d_exit_timer' = FALSE
    /\ UNCHANGED <<notDashVars, cfgProvider, dashVars, d_screen,
                   d_pane_disabled, d_form_error>>

\* the poll timer and the workers of the running application
DashWorkers ==
    /\ d_running
    /\ \/ DashTrigger
       \/ \E w \in WorkerIds : WorkerBegin(w)
       \/ \E w \in WorkerIds : WorkerReturn(w)
       \/ \E w \in WorkerIds : WorkerApply(w)
       \/ \E w \in WorkerIds : WorkerUnconfigured(w)

DashUiNext ==
    \/ \E key \in DashKeys : DashKey(key)
    \/ \E action \in {"configure", "change", "remove", "cancel"} :
          ManageButton(action)
    \/ \E picked \in BOOLEAN : PickerDismiss(picked)
    \/ ConfigDialog
    \/ DashExitTimer
    \/ DashWorkers

(* ------------------------------------------------------------------ *)
(* watch-gh-actions.py: GHActionsApp                                   *)
(* ------------------------------------------------------------------ *)

GhKeys == {"q", "?", "r", "x"}

GhRepos == {"", "o/r"}

\* what fetch_runs returns: None, or the runs gh listed
GhResults == {None, Ok(<<>>), Ok(<<"run1">>), Ok(<<"run2", "run1">>)}

\* do_refresh, given what detect_repo and fetch_runs would return;
\* is_fetching is set and reset within the call
GhDoRefresh(current, detected, res) ==
    LET repo == IF current = "" THEN detected ELSE current
    IN  /\ gh_repo' = repo
        /\ gh_fetch_error' =
              IF repo = "" THEN "Could not detect repo"
              ELSE IF res = None THEN "gh run list failed" ELSE ""
        /\ gh_cached_runs' =
              IF repo # "" /\ res # None THEN res.recs ELSE gh_cached_runs

\* main and run up to the loop: the application is built with --repo or
\* without, fetches and renders
GHStart ==
    /\ prog = "ghactions" /\ gh_pc = "start"
    /\ \E arg \in GhRepos, detected \in GhRepos, res \in GhResults :
         GhDoRefresh(arg, detected, res)
    /\ gh_pc' = "getch"
    /\ UNCHANGED <<notGhVars, gh_show_help>>

\* getch() and handle_input(key)
GHHandleInput ==
    /\ prog = "ghactions" /\ gh_pc = "getch"
    /\ \E key \in GhKeys \cup {NoKey} :
         CASE key = NoKey ->
                /\ gh_pc' = "poll"
                /\ UNCHANGED <<gh_show_help, gh_repo, gh_cached_runs,
                               gh_fetch_error>>
           [] key # NoKey /\ gh_show_help ->
                /\ gh_show_help' = FALSE
                /\ gh_pc' = "poll"
                /\ UNCHANGED <<gh_repo, gh_cached_runs, gh_fetch_error>>
           [] key = "q" /\ ~gh_show_help ->
                /\ gh_pc' = "done"
                /\ UNCHANGED <<gh_show_help, gh_repo, gh_cached_runs,
                               gh_fetch_error>>
           [] key = "?" /\ ~gh_show_help ->
                /\ gh_show_help' = TRUE
                /\ gh_pc' = "poll"
                /\ UNCHANGED <<gh_repo, gh_cached_runs, gh_fetch_error>>
           [] key = "r" /\ ~gh_show_help ->
                /\ \E detected \in GhRepos, res \in GhResults :
                      GhDoRefresh(gh_repo, detected, res)
                /\ gh_pc' = "poll"
                /\ UNCHANGED gh_show_help
           [] OTHER ->
                /\ gh_pc' = "poll"
                /\ UNCHANGED <<gh_show_help, gh_repo, gh_cached_runs,
                               gh_fetch_error>>
    /\ UNCHANGED notGhVars

\* the rest of the loop body: the poll, when it is due, and render_screen
GHPoll ==
    /\ prog = "ghactions" /\ gh_pc = "poll"
    /\ \/ \E detected \in GhRepos, res \in GhResults :
            GhDoRefresh(gh_repo, detected, res)
       \/ UNCHANGED <<gh_repo, gh_cached_runs, gh_fetch_error>>
    /\ gh_pc' = "getch"
    /\ UNCHANGED <<notGhVars, gh_show_help>>

GHNext == GHStart \/ GHHandleInput \/ GHPoll

DWNext ==
    \/ DWStart
    \/ DWFetchReturn
    \/ DWRefreshEnd
    \/ DWHandleInput
    \/ DWCheckTriggers
    \/ DWRender
    \/ FsEvent
    \/ Tick
    \/ TypeKey
    \/ StopStep
    \/ DWError

\* the state of the three programs after construction
\* (DeployWatchApp.__init__, DeploysTab.__init__, BeadsTUI.__init__)
Constructed ==
    /\ dw_pc = "start" /\ dw_ret = "init" /\ dw_call = "idle" /\ dw_run = NoRun
    /\ cached_records = <<>> /\ fetch_error = "" /\ is_fetching = FALSE
    /\ show_help = FALSE /\ show_provider_menu = FALSE
    /\ show_provider_manage = FALSE
    /\ triggered = FALSE /\ watcher = "none" /\ pollDue = FALSE
    /\ fs_reader = "none"
    /\ keybuf = <<>> /\ renderIO = {}
    /\ trig_late = FALSE /\ cause_late = FALSE
    /\ d_cached_records = <<>> /\ d_fetch_error = ""
    /\ workers = [w \in WorkerIds |-> Unused]
    /\ tickets = <<>> /\ summary = 0 /\ error_msg = "" /\ cursor = 0
    /\ mode = "list" /\ refresh_lock = "free" /\ stop_event = FALSE
    /\ b_pc = "start" /\ bg_pc = "unstarted"
    /\ ld = [t \in Threads |-> NoLoad]
    /\ frame = NoFrame /\ db = 1 /\ tool = "ok" /\ last_done = <<>>
    /\ ag_pc = "render" /\ scroll_offset = 0 /\ selected_idx = 0
    /\ in_detail = FALSE /\ total = 0 /\ card = NoCard /\ last_key = NoKey
    /\ prov_pc = "host" /\ deploys = <<>> /\ stdout = <<>>
    /\ host_cfg = NoSection /\ child_env = os_environ /\ prov_cfg = Unread
    /\ d_screen = "main" /\ d_running = TRUE /\ d_exit_timer = FALSE
    /\ d_pane_disabled = FALSE /\ d_form_error = FALSE
    /\ tabs_cfg = NoTabs /\ d_panes = Uncomposed
    /\ gh_pc = "start" /\ gh_show_help = FALSE /\ gh_repo = ""
    /\ gh_cached_runs = <<>> /\ gh_fetch_error = ""

NoCall ==
    /\ p_pc = "idle" /\ p_provider = "none" /\ p_exec = FALSE
    /\ p_run = NoRun /\ p_res = None

\* no table is being laid out
NoLayout == lay_pc = "idle" /\ content = <<>> /\ widths = <<>> /\ excess = 0

\* the terminal and the status directories matter to watch-agents.py only
NoTerminal == max_y = 21 /\ max_x = 80 /\ status_files = 0

\* the two deploy programs: watch-deploys.py and the dashboard tab
InitDeploys ==
    /\ prog \in {"deploys", "dashboard"}
    /\ NoTerminal /\ NoLayout
    /\ cfgProvider \in {"none", "p1"}
    /\ scriptOk \in BOOLEAN
    /\ Constructed /\ NoCall

NextDeploys == DWNext \/ DashNext \/ ScriptChange

SpecDeploys == InitDeploys /\ [][NextDeploys]_vars

\* watch-deploys.py alone, its loop running: the thread of run() takes its
\* next step (the list subprocess ends within its 30 s timeout, getch
\* returns within the 2 s of halfdelay) and time passes
\* (a key typed during a fetch reaches handle_input at the next getch like
\* any other key, so the key buffer is left out here)
InitDW == InitDeploys /\ prog = "deploys"

LoopStep ==
    DWStart \/ DWFetchReturn \/ DWRefreshEnd \/ DWHandleInput
        \/ DWCheckTriggers \/ DWRender

NextDW == LoopStep \/ FsEvent \/ Tick \/ ScriptChange \/ StopStep \/ DWError

\* the wait of stop() ends within its 2 s and a pipe at its end is read
SpecDWFair ==
    /\ InitDW /\ [][NextDW]_vars
    /\ WF_vars(LoopStep) /\ WF_vars(Tick) /\ WF_vars(StopStep)

\* the dashboard application from its start
InitTabs == InitDeploys /\ prog = "dashboard"

\* the screens of the application; its workers are left where a refresh
\* starts them, they add nothing to what compose() shows
NextTabs ==
    \/ DashCompose
    \/ \E key \in DashKeys : DashKey(key)
    \/ \E action \in {"configure", "change", "remove", "cancel"} :
          ManageButton(action)
    \/ \E picked \in BOOLEAN : PickerDismiss(picked)
    \/ ConfigDialog
    \/ DashExitTimer

SpecTabs == InitTabs /\ [][NextTabs]_vars

\* the ticket browser
InitBeads ==
    /\ prog = "beads"
    /\ NoTerminal /\ NoLayout
    /\ cfgProvider = "none" /\ scriptOk = FALSE
    /\ Constructed /\ NoCall

SpecBeads == InitBeads /\ [][BeadsNext]_vars

\* the steps of the background thread once it runs: bd ends within its
\* 10 s timeout, the lock is granted when free, the wait returns
BgStep ==
    \/ RunBdReturn("bg") \/ LoadAcquire("bg") \/ LoadWrite("bg")
    \/ BgStop

\* the ticket browser with a background thread that is scheduled
SpecBeadsFair == InitBeads /\ [][BeadsNext]_vars /\ WF_vars(BgStep)

\* fetch_deploys as a function of its inputs
InitParse ==
    /\ prog = "parser"
    /\ NoTerminal /\ NoLayout
    /\ cfgProvider = "none" /\ scriptOk = FALSE
    /\ Constructed
    /\ p_pc = "input" /\ p_res = None
    /\ p_provider \in {"none", "p1"}
    /\ p_exec \in BOOLEAN
    /\ p_run \in AllRuns

SpecParse == InitParse /\ [][CallFetchDeploys]_vars

\* the agent card dashboard, started in any terminal with any number of
\* agents at work
InitAgents ==
    /\ prog = "agents"
    /\ cfgProvider = "none" /\ scriptOk = FALSE
    /\ Constructed /\ NoCall /\ NoLayout
    /\ max_y \in Heights /\ max_x \in Widths
    /\ status_files \in 0..MaxAgents

SpecAgents == InitAgents /\ [][AgentsNext]_vars

\* render_table called with some content in some terminal
InitLayout ==
    /\ prog \in Tables
    /\ cfgProvider = "none" /\ scriptOk = FALSE
    /\ Constructed /\ NoCall
    /\ max_y = 21 /\ status_files = 0
    /\ max_x \in TableWidths
    /\ lay_pc = "input"
    /\ content \in (IF prog = "deploy_table" THEN DeployContents
                    ELSE RunContents)
    /\ widths = <<>> /\ excess = 0

SpecLayout == InitLayout /\ [][LayoutNext]_vars

\* a provider script run with the argument "list"
InitProvider ==
    /\ prog \in Providers
    /\ NoTerminal /\ NoLayout
    /\ cfgProvider = "none" /\ scriptOk = FALSE
    /\ Constructed /\ NoCall

SpecProvider == InitProvider /\ [][ProviderNext]_vars

\* the workflow-run watcher
InitGH ==
    /\ prog = "ghactions"
    /\ NoTerminal /\ NoLayout
    /\ cfgProvider = "none" /\ scriptOk = FALSE
    /\ Constructed /\ NoCall

\* the three programs with a quit key, at their keyboards
InitKeys == InitDeploys \/ InitGH

NextKeys == NextDW \/ DashUiNext \/ GHNext

SpecKeys == InitKeys /\ [][NextKeys]_vars

\* the three curses programs that have modes, at their keyboards
InitModes == InitDW \/ InitAgents \/ InitBeads

\* a step of watch-deploys.py or of its surroundings
DWStep == prog = "deploys" /\ NextDW

NextModes == DWStep \/ AgentsNext \/ BeadsNext

SpecModes == InitModes /\ [][NextModes]_vars

Init ==
    InitDeploys \/ InitBeads \/ InitAgents \/ InitLayout \/ InitProvider
        \/ InitGH

Next ==
    NextDeploys \/ BeadsNext \/ AgentsNext \/ LayoutNext \/ ProviderNext
        \/ DashUiNext \/ GHNext

Spec == Init /\ [][Next]_vars

(* ------------------------------------------------------------------ *)
(* Properties                                                          *)
(* ------------------------------------------------------------------ *)

\* the list subprocess failed: timeout, non-zero exit or an exception
Failed(run) ==
    \/ run.kind \in {"timeout", "gone", "raise"}
    \/ run.kind = "exit" /\ run.code # 0

\* the plugin ended cleanly without printing a record
EmptySuccess(run) ==
    /\ run.kind = "exit" /\ run.code = 0
    /\ \A i \in 1..Len(run.out) : run.out[i].kind \in {"bad", "blank"}

\* this step is the store of do_refresh
DWStores == prog = "deploys" /\ dw_pc = "storing" /\ dw_pc' # "storing"

\* this step is the _apply of worker w
DashApplies(w) == prog = "dashboard" /\ workers[w].st = "returned"
                    /\ workers'[w].st = "done"

InFlight ==
    Cardinality({t \in Threads : prog = "beads" /\ ld[t].pc = "run_bd"})
    + Cardinality({w \in WorkerIds : prog = "dashboard"
                                       /\ workers[w].st = "fetching"
                                       /\ workers[w].call = "list"})
    + (IF prog = "deploys" /\ dw_pc = "fetching" /\ dw_call = "list"
       THEN 1 ELSE 0)

\* C2: at every instant at most one fetch is in progress.
C2_AtMostOneFetch == InFlight <= 1

\* C3: a frame the ticket browser has drawn shows the records of one fetch:
\* as many rows as it counted, all of one version, under that version's
\* summary.
C3_FrameFromOneFetch ==
    (prog = "beads" /\ b_pc = "getch") =>
        /\ Len(frame.rows) = frame.count
        /\ \A i \in 1..Len(frame.rows) :
             /\ frame.rows[i].ver = frame.rows[1].ver
             /\ frame.rows[i].ver = frame.summary

\* C4: once every load that has completed has written its result, the
\* store holds the records of the load whose bd run completed last.
C4_StoreIsLastCompleted ==
    (/\ prog = "beads"
     /\ \A t \in Threads : ld[t].pc \in {"idle", "run_bd"}
     /\ last_done # Unavailable) =>
        tickets = last_done

\* C5: a change notification that arrives during a fetch starts no fetch
\* after that fetch has finished.
C5_LateTriggerStartsNoFetch ==
    ~(prog = "deploys" /\ dw_pc = "fetching" /\ cause_late)

\* C6: while the plugin subprocess runs, the loop of the deploy watcher is
\* at getch, at its trigger check or painting, not inside do_refresh.
C6_LoopNotBlockedByFetch ==
    (prog = "deploys" /\ dw_call = "list") =>
        dw_pc \in {"getch", "check", "render"}

\* C7: painting a frame reads no file and runs no subprocess.
C7_RenderDoesNoIO == renderIO = {}

\* C8: in the deploy watcher a clean exit without records empties the
\* store and shows no error, a timeout or non-zero exit keeps the store
\* and shows an error.
C8_EmptySuccessIsNotFailure ==
    [][ DWStores =>
          /\ EmptySuccess(dw_run) =>
               cached_records' = <<>> /\ fetch_error' = ""
          /\ (dw_run.kind = "timeout"
                \/ (dw_run.kind = "exit" /\ dw_run.code # 0)) =>
               cached_records' = cached_records /\ fetch_error' # ""
      ]_vars

\* an empty success has been stored without an error
C8_Witness ==
    /\ prog = "deploys" /\ dw_pc = "render"
    /\ EmptySuccess(dw_run)
    /\ cached_records = <<>>
    /\ fetch_error = ""

\* the record lines of an output, parsed, in output order
RECURSIVE RecordLines(_)
RecordLines(out) ==
    IF out = <<>> THEN <<>>
    ELSE IF Head(out).kind = "obj"
    THEN <<[type |-> "object", id |-> Head(out).id]>> \o RecordLines(Tail(out))
    ELSE RecordLines(Tail(out))

\* C9: with exit code 0 the fetch returns exactly the record lines of the
\* output, in output order.
C9_ExactlyRecordLines ==
    (prog = "parser" /\ p_pc = "output" /\ p_provider # "none" /\ p_exec
       /\ p_run.kind = "exit" /\ p_run.code = 0) =>
        p_res = Ok(RecordLines(p_run.out))

\* C10: a refresh that finds the provider script missing or not executable
\* keeps the fetched records and shows an error.
C10_NotFoundKeepsRecords ==
    [][ (DWStores /\ dw_call = "noexec") =>
          cached_records' = cached_records /\ fetch_error' # "" ]_vars

\* C11: after a failed fetch of the deploy watcher, while its loop keeps
\* running, a fetch started by the trigger check of run() (poll timer or
\* change notification, no key) follows; and a fetch that returns a list
\* clears the error indicator and replaces the records.
C11_FailedFetchIsRetried ==
    /\ (prog = "deploys" /\ dw_pc = "render" /\ Failed(dw_run)
           /\ fetch_error # "")
         ~> (dw_pc = "done" \/ (dw_pc = "fetching" /\ dw_ret = "trigger"))
    /\ [][ (DWStores /\ DWResult.tag = "list") =>
              fetch_error' = "" /\ cached_records' = DWResult.recs ]_vars

\* without fswatch, the poll timer has started a fetch after a failed one
C11_Witness ==
    /\ prog = "deploys" /\ watcher = "none"
    /\ dw_pc = "fetching" /\ dw_ret = "trigger"
    /\ Failed(dw_run)

\* C12: in the agent dashboard, in a terminal it does not reject as too
\* small, the viewport always satisfies scroll_offset >= 0 and
\* scroll_offset <= selected_idx < scroll_offset + visible_cards.
C12_SelectionInViewport ==
    (prog = "agents" /\ max_y >= 4 /\ max_x >= 20) =>
        /\ scroll_offset >= 0
        /\ scroll_offset <= selected_idx
        /\ selected_idx < scroll_offset + visible_cards(max_y)

\* C13: the frame painted after a j or k key shows the selected card with
\* all five of its rows below the title bar and above the status bar.
C13_SelectedCardOnScreen ==
    (prog = "agents" /\ ag_pc = "getch" /\ last_key \in {"j", "k"}
       /\ card.cards) =>
        /\ card.sel
        /\ card.sel_row >= 1
        /\ card.sel_row + (CARD_HEIGHT - 2) <= max_y - 2

\* C14: whenever the list the agent dashboard has painted is non-empty,
\* the selected index is one of its rows.
C14_SelectionInList ==
    (prog = "agents" /\ ag_pc = "getch" /\ total > 0) =>
        (0 <= selected_idx /\ selected_idx <= total - 1)

\* C17: when cards are painted, the left margin plus the card width is at
\* most the width of the terminal.
C17_CardFitsTerminal ==
    (prog = "agents" /\ ag_pc = "getch" /\ card.cards) =>
        CARD_LEFT_MARGIN + card.width <= max_x

\* C15: when the terminal is at least as wide as all columns at their
\* minimum of 6 plus the separators, the laid out table is at most as wide
\* as the terminal and no column is narrower than 6.
C15_TableFitsTerminal ==
    (prog \in Tables /\ lay_pc = "done"
       /\ max_x >= 6 * Len(content) + Len(content) + 1) =>
        /\ SumSeq(widths) + Len(widths) + 1 <= max_x
        /\ \A i \in 1..Len(widths) : widths[i] >= 6

\* a table that had to be shrunk fills the terminal exactly
C15_Witness ==
    /\ prog \in Tables /\ lay_pc = "done"
    /\ max_x >= 6 * Len(content) + Len(content) + 1
    /\ widths # content
    /\ SumSeq(widths) + Len(widths) + 1 = max_x

\* the widest column above the minimum of 6, the leftmost one on a tie
\* (0: every column is at its minimum)
LeftmostWidest(w) ==
    IF \A i \in 1..Len(w) : w[i] <= 6 THEN 0
    ELSE CHOOSE j \in 1..Len(w) :
            /\ w[j] > 6
            /\ \A i \in 1..Len(w) : w[i] > 6 => w[i] <= w[j]
            /\ \A i \in 1..(j - 1) : w[i] <= 6 \/ w[i] < w[j]

\* the greedy procedure: one unit per step off the leftmost widest column,
\* until the table fits or no column can shrink
RECURSIVE GreedyShrink(_, _)
GreedyShrink(w, over) ==
    IF over <= 0 \/ LeftmostWidest(w) = 0 THEN w
    ELSE GreedyShrink([w EXCEPT ![LeftmostWidest(w)] = @ - 1], over - 1)

Preferred == IF prog = "deploy_table" THEN {2} ELSE {1, 2}
PreferredFloor(i) == IF prog = "run_table" /\ i = 2 THEN 8 ELSE 12

CanonicalEnum ==
    {"pending", "building", "deploying", "live", "failed", "cancelled",
     "unknown"}

SplitNames == {"building", "deploying", "failed"}

C20_QuitOnlyFromList ==
    /\ [][ (prog = "deploys"
             /\ (show_help \/ show_provider_menu \/ show_provider_manage))
            => dw_pc' # "done" ]_vars
    /\ [][ (prog = "ghactions" /\ gh_show_help) => gh_pc' # "done" ]_vars
    /\ [][ (DashKey("q") /\ d_screen \in Modals) => d_running' ]_vars

\* the list view of watch-deploys.py: no overlay is shown
DWListView == ~show_help /\ ~show_provider_menu /\ ~show_provider_manage

DWSelectView ==
    /\ ~show_help /\ ~show_provider_manage /\ show_provider_menu
    /\ 1 <= Len(list_providers)

\* a dashboard worker was started by this step
WorkerStarted ==
    \E w \in WorkerIds : workers[w].st = "unused" /\ workers'[w].st = "started"

\* C22: after a provider is picked in provider-select and its configuration
\* is saved, the application is back in the list view and a refresh is
\* started at once, before any timer or change trigger; if the save does
\* not succeed, the pick starts no refresh
C22_SaveRefreshesAtOnce ==
    /\ [][ (DWHandle("1", TRUE) /\ DWSelectView) =>
             /\ DWListView'
             /\ cfgProvider' = list_providers[1]
             /\ dw_pc' = "fetching" /\ dw_call' = "list" /\ is_fetching' ]_vars
    /\ [][ (DWHandle("1", FALSE) /\ DWSelectView) =>
             /\ dw_pc' = "check" /\ dw_call' = dw_call /\ ~is_fetching'
             /\ cfgProvider' = cfgProvider ]_vars
    /\ [][ ConfigButton(TRUE) =>
             d_screen' = "main" /\ cfgProvider' = "p1" /\ WorkerStarted ]_vars
    /\ [][ ConfigButton(FALSE) =>
             d_screen' = "main" /\ workers' = workers
                /\ cfgProvider' = cfgProvider ]_vars

C22_Witness ==
    /\ prog = "deploys" /\ DWListView
    /\ dw_pc = "fetching" /\ dw_ret = "key" /\ dw_call = "list"
    /\ cfgProvider = "p1" /\ is_fetching /\ cached_records = <<>>
    /\ dw_run = NoRun

\* the keys handle_input of watch-deploys.py acts on, by view
DWVocabulary ==
    IF show_help THEN Keys
    ELSE IF show_provider_manage THEN {"q", "c", "r"}
    ELSE IF show_provider_menu
    THEN {"q"} \cup (IF 1 <= Len(list_providers) THEN {"1"} ELSE {})
    ELSE {"q", "?", "p", "r", "d"}

\* the keys run of watch-beads.py acts on, by mode
BeadsVocabulary ==
    IF mode = "list" THEN {"j", "k", "enter", "r", "q"}
    ELSE {"j", "k", "enter", "q"}

C24_NoTableWithoutProvider ==
    /\ [](prog = "deploys" /\ cfgProvider = "none" =>
             /\ dw_call # "list"
             /\ dw_pc = "render" => body_view # "table")
    /\ [][ (prog = "dashboard" /\ cfgProvider = "none") =>
              \A w \in WorkerIds :
                  ~(workers[w].st = "returned" /\ workers'[w].st = "done") ]_vars

\* C25: every field key of the provider's config command reaches the list
\* command in the variable DEPLOY_WATCH_<KEY> with the configured value or
\* else the default, and what the list command uses as its configuration is
\* what those variables hold.
C25_ConfigThroughEnv ==
    (prog \in Providers /\ prov_pc # "host") =>
        /\ \A k \in FieldKeys :
              child_env[env_key(k)] = field_value(prog, host_cfg, k)
        /\ prov_cfg # Unread =>
              /\ prov_cfg.service_id = child_env[env_key("serviceId")]
              /\ prov_cfg.api_key_env \in
                    {"unread", child_env[env_key("apiKeyEnv")]}

C28_TabsFollowConfig ==
    (prog = "dashboard" /\ d_panes # Uncomposed) =>
        \A tab \in Tabs :
            pane(tab) \in d_panes <=> config_tab_enabled(tabs_cfg, tab)

\* C31: scrolling of the agent dashboard is minimal. A j or k move whose
\* new selection lies inside the window [scroll_offset, scroll_offset +
\* visible_cards) leaves scroll_offset alone; a move that ends below the
\* window sets it to selected_idx - visible_cards + 1; a move that ends
\* above the window sets it to selected_idx.
C31_MinimalScroll ==
    [][ (prog = "agents" /\ ag_pc = "getch" /\ ~in_detail /\ total > 0
           /\ ag_pc' = "render" /\ last_key' \in {"j", "k"}) =>
          LET vis == visible_cards(max_y)
          IN  /\ (scroll_offset <= selected_idx'
                    /\ selected_idx' < scroll_offset + vis)
                   => scroll_offset' = scroll_offset
              /\ selected_idx' >= scroll_offset + vis
                   => scroll_offset' = selected_idx' - vis + 1
              /\ selected_idx' < scroll_offset
                   => scroll_offset' = selected_idx' ]_vars

\* C32: in the records a provider prints, a deploy whose raw status is
\* build_failed has build_status failed and a deploy_status other than
\* failed, one whose raw status is update_failed has deploy_status failed
\* and a build_status other than failed, and records of the two raw codes
\* never carry the same pair of statuses.
C32_FailedIsSplit ==
    prog \in Providers =>
        /\ \A i \in 1..Len(stdout) :
              /\ deploys[i] = "build_failed" =>
                    /\ stdout[i].build_status = "failed"
                    /\ stdout[i].deploy_status # "failed"
              /\ deploys[i] = "update_failed" =>
                    /\ stdout[i].deploy_status = "failed"
                    /\ stdout[i].build_status # "failed"
        /\ \A i, j \in 1..Len(stdout) :
              (deploys[i] = "build_failed" /\ deploys[j] = "update_failed")
                 => stdout[i] # stdout[j]

\* a list with one failure of each kind has been printed
C32_Witness ==
    /\ prog \in Providers /\ prov_pc = "done"
    /\ deploys = <<"build_failed", "update_failed">>
    /\ Len(stdout) = 2

\* the required field of the form is left empty (it has no default)
RequiredEmpty(typed) == typed.serviceId = ""

\* C33: a configuration form whose required field is empty is not saved. In
\* the deploy watcher the configured provider and the records stay as they
\* are and no fetch starts; in the dashboard the dialog stays open, the
\* configured provider stays and no refresh worker is started.
C33_EmptyRequiredIsRefused ==
    /\ [][ \A typed \in TypedForms :
              (RequiredEmpty(typed) /\ DWSelectView
                 /\ DWHandle("1", form_saved(typed))) =>
                  /\ cfgProvider' = cfgProvider
                  /\ cached_records' = cached_records
                  /\ dw_pc' # "fetching" /\ dw_call' = dw_call ]_vars
    /\ [][ \A typed \in TypedForms :
              (RequiredEmpty(typed) /\ ConfigSave(typed)) =>
                  /\ cfgProvider' = cfgProvider
                  /\ workers' = workers
                  /\ d_cached_records' = d_cached_records
                  /\ d_screen' = "config" ]_vars

\* the dialog of the dashboard has refused a Save while no provider is
\* configured
C33_Witness ==
    /\ prog = "dashboard" /\ d_screen = "config" /\ d_form_error
    /\ cfgProvider = "none"

\* the number of dialogs of the deploy watcher that are active
ActiveViews ==
    Cardinality({v \in {"help", "menu", "manage"} :
                   \/ v = "help" /\ show_help
                   \/ v = "menu" /\ show_provider_menu
                   \/ v = "manage" /\ show_provider_manage})

\* C34: in the deploy watcher at most one of the help, provider-select and
\* provider-manage views is active, and the view render_screen paints is
\* the one whose branch of handle_input takes the next key (the table or
\* the unconfigured prompt for the main branch).
C34_OneViewActive ==
    prog = "deploys" =>
        /\ ActiveViews <= 1
        /\ IF input_view = "main" THEN body_view \in {"table", "unconfigured"}
           ELSE body_view = input_view

\* c in the manage menu has opened the selection menu
C34_Witness ==
    /\ prog = "deploys" /\ dw_pc = "getch"
    /\ show_provider_menu /\ ~show_provider_manage /\ cfgProvider # "none"

\* C35: once the provider is removed, and until one is configured again,
\* the record store of the deploy watcher and of the dashboard tab is
\* empty, whatever a fetch that was started before the removal delivers.
C35_NoRecordsAfterRemoval ==
    cfgProvider = "none" =>
        /\ prog = "deploys" => cached_records = <<>>
        /\ prog = "dashboard" => d_cached_records = <<>>

\* render_table, the loop over the records: rec.get(...) is a dict method,
\* so a stored value that is not a JSON object raises AttributeError
render_row(rec) == IF rec.type = "object" THEN "row" ELSE "AttributeError"

\* C37: every element a successful fetch returns for the record store is a
\* JSON object (a line that is valid JSON but not an object is skipped), so
\* drawing its table row does not fail.
C37_StoredAreObjects ==
    (prog = "parser" /\ p_pc = "output" /\ p_res.tag = "list") =>
        \A i \in 1..Len(p_res.recs) :
            /\ p_res.recs[i].type = "object"
            /\ render_row(p_res.recs[i]) # "AttributeError"

\* C36: in the dashboard, saving a provider configuration and removing
\* the provider leave the "tabs" section of the configuration file as it
\* was.
C36_TabsSectionKept ==
    [][ (ConfigButton(TRUE) \/ ManageButton("remove")) =>
          tabs_cfg' = tabs_cfg ]_vars

\* C38: in every painted agent card the top border, each content row with
\* its two side borders, and the bottom border are exactly card_width
\* columns wide.
C38_CardRowsSameWidth ==
    (prog = "agents" /\ ag_pc = "getch" /\ card.cards) =>
        /\ card.top = card.width
        /\ card.rows = {card.width}
        /\ card.bottom = card.width

\* C39: every choice of the provider-manage dialog takes effect: Configure
\* opens the configuration form, Change opens the provider picker, Remove
\* deletes the configuration and clears the records, Cancel changes
\* nothing but closing the dialog.
C39_ManageChoicesTakeEffect ==
    [][ /\ ManageButton("configure") => d_screen' = "config"
        /\ ManageButton("change") => d_screen' = "picker"
        /\ ManageButton("remove") =>
              cfgProvider' = "none" /\ d_cached_records' = <<>>
        /\ ManageButton("cancel") =>
              /\ d_screen' = "main"
              /\ UNCHANGED <<cfgProvider, d_cached_records, tabs_cfg>> ]_vars

\* the main loop of the ticket browser has exited, by quit or by an error
BeadsExited == prog = "beads" /\ b_pc \in {"done", "crashed"}

====
